---- MODULE Spec2Model ----
(***************************************************************************)
(* Quantum Studio v2: the virtual file system (traversePath,               *)
(* applyFileOperations), the streaming response framer and payload decoder *)
(* (runAIGeneration) and the task lifecycle (handleCreateTask,             *)
(* handleApproveBlueprint, handleAutoPilotTick, handleApproveTask,         *)
(* handleRejectTask) of App.tsx.                                           *)
(*                                                                         *)
(* Representation.                                                         *)
(*  - A path string is held as the result of path.split('/'): a non-empty  *)
(*    sequence of segments, "" for an empty segment.  "src/x.tsx" is       *)
(*    <<"src", "x.tsx">>, "/" is <<"", "">>, "" is <<"">>.  An absent      *)
(*    (undefined) path is NoPath.                                          *)
(*  - A FileSystemTree is held as a function from node paths (sequences    *)
(*    of names, <<>> for the root) to nodes, a node being                  *)
(*    [type |-> "folder"] or [type |-> "file", content |-> c]; the         *)
(*    children of a folder at p are the paths p \o <<name>> of the domain. *)
(*  - A text is a sequence of tokens (see the framer section).             *)
(***************************************************************************)
EXTENDS Integers, Sequences, FiniteSets, TLC

VARIABLES
    fileSystem,     \* ws.fileSystem of the active workspace
    tasks,          \* ws.tasks of the active workspace, newest first
    rounds,         \* the runAIGeneration calls in flight, by slot
    isAutoPilotOn,  \* currentUiState.isAutoPilotOn
    last,           \* history: the last call of handleDirectFileOperations
    started,        \* history: the number of runAIGeneration calls so far
    storage,        \* localStorage: what is saved under the workspaces and UI keys
    mounted,        \* whether the App component is mounted
    surface,        \* the selector script's variables and the outlines in the preview
    host,           \* isSelectorActive of WebsitePreview, selectedElementInfo of App
    toSurface,      \* messages posted to the preview's window, not yet received
    toHost,         \* messages posted to the parent window, not yet received
    interval,       \* the interval of the auto-pilot effect
    workspaces,     \* the workspaces, where several are told apart (SpecWorkspaces)
    activeWorkspaceId   \* the id of the active one among them

\* The variables of persistence and of the element picker.
persistVars == <<storage, mounted>>

pickerVars == <<surface, host, toSurface, toHost>>

\* The variable of the auto-pilot interval.
timerVars == <<interval>>

\* All variables but those of the workspaces.
otherVars0 ==
    <<fileSystem, tasks, rounds, isAutoPilotOn, last, started, storage, mounted,
      surface, host, toSurface, toHost, interval>>

\* The variables of the specification of several workspaces; in the others
\* the one workspace is fileSystem and tasks, and these stay as they are.
workspaceVars == <<workspaces, activeWorkspaceId>>

vars == <<fileSystem, tasks, rounds, isAutoPilotOn, last, started, storage, mounted,
          surface, host, toSurface, toHost, interval, workspaces, activeWorkspaceId>>

\* ------------------------------------------------------------------ bounds

\* Most nodes (the root included) a tree of the model holds.
MaxNodes == 5

\* Longest batch handed to applyFileOperations in SpecBatch.
MaxBatch == 2

\* Most tasks a workspace holds.
MaxTasks == 2

\* Most runAIGeneration calls in flight at once.
MaxInFlight == 2

\* Most runAIGeneration calls of a behaviour.
MaxRounds == 3

\* Most tokens a chunk of the stream holds.
MaxChunk == 6

\* The pieces a response of the framer's specification is put together from.
MaxPieces == 3

\* The most messages waiting in one direction between host and preview.
MaxMessages == 2

\* The most workspaces.
MaxWorkspaces == 2

\* The most console messages the host is handed in a behaviour.
MaxReceived == 52

\* The most console calls that are not console.log among those.
MaxLoud == 1

\* The most console messages of a behaviour in which every call is of any
\* level.
MaxLogs == 3

\* ------------------------------------------------------- file system: data

Folder == [type |-> "folder"]

FileNode(c) == [type |-> "file", content |-> c]

\* INITIAL_CODE, the text of the starter component.
INITIAL_CODE == "// Welcome to Quantum Code!"

INITIAL_FILES ==
    (<<>> :> Folder) @@ (<<"src">> :> Folder)
        @@ (<<"src", "App.tsx">> :> FileNode(INITIAL_CODE))

\* An absent optional string field of an operation (content).
Undefined == "<undefined>"

\* Names every children object answers to without holding a child of that
\* name: children is a plain object (an object literal, or one JSON.parse
\* made), so children[name] is a member of Object.prototype for such a name,
\* here the function Object.
InheritedNames == {"constructor"}

\* What children[name] is for an inherited name: truthy, neither a file nor a
\* folder, and with no children of its own.
InheritedValue == [type |-> "function"]

\* An absent optional path field of an operation (newPath); no string splits
\* to the empty sequence.
NoPath == <<>>

IsPrefix(p, q) == Len(p) <= Len(q) /\ SubSeq(q, 1, Len(p)) = p

\* A faulty delete: the node leaves the tree and what is below it stays.
DeleteChildKeepingBelow(t, p) == [q \in DOMAIN t \ {p} |-> t[q]]

\* delete parent.children[key], for the child at path p: the node and all
\* below it leave the tree.
DeleteChild(t, p) == [q \in {q \in DOMAIN t : ~IsPrefix(p, q)} |-> t[q]]

\* The node object at path p with everything below it, as a tree of its own.
NodeAt(t, p) ==
    [s \in {SubSeq(q, Len(p) + 1, Len(q)) : q \in {q \in DOMAIN t : IsPrefix(p, q)}}
        |-> t[p \o s]]

\* parent.children[key] = node, for the child at path p: whatever was there is
\* replaced by the node object (with everything below it).
SetChild(t, p, node) ==
    LET base == DeleteChild(t, p)
    IN  [q \in DOMAIN base \cup {p \o s : s \in DOMAIN node}
            |-> IF IsPrefix(p, q) THEN node[SubSeq(q, Len(p) + 1, Len(q))] ELSE base[q]]

\* path.split('/').filter(p => p)
PathParts(path) == SelectSeq(path, LAMBDA p : p # "")

\* ------------------------------------------------- file system: traversePath

\* The for loop of traversePath over parts[0 .. length-2], from index i with
\* current the path of the node reached.  Missing parents are put into the
\* tree as the loop goes (createParents), so the tree is part of the result
\* even when the walk fails.  For an inherited name that is no child, child is
\* the inherited value: nothing is made, current becomes that value, and the
\* type test that comes next fails.
RECURSIVE TraverseLoop(_, _, _, _, _)
TraverseLoop(t, parts, i, current, createParents) ==
    IF i > Len(parts) - 1 THEN [ok |-> TRUE, tree |-> t, current |-> current]
    ELSE IF t[current].type # "folder" THEN [ok |-> FALSE, tree |-> t, current |-> current]
    ELSE LET child == Append(current, parts[i])
         IN  IF child \notin DOMAIN t
             THEN IF parts[i] \in InheritedNames
                  THEN [ok |-> FALSE, tree |-> t, current |-> current]
                  ELSE IF createParents
                  THEN TraverseLoop(t @@ (child :> Folder), parts, i + 1, child, createParents)
                  ELSE [ok |-> FALSE, tree |-> t, current |-> current]
             ELSE TraverseLoop(t, parts, i + 1, child, createParents)

\* traversePath with the createParents request ignored: a missing parent is
\* never made.
traversePathNeverCreating(t, path, createParents) ==
    LET parts == PathParts(path)
        failed(tr) == [tree |-> tr, hasParent |-> FALSE, parent |-> <<>>,
                       hasNode |-> FALSE, node |-> <<>>, key |-> ""]
    IN  IF Len(parts) = 0
        THEN [tree |-> t, hasParent |-> FALSE, parent |-> <<>>,
              hasNode |-> TRUE, node |-> <<>>, key |-> ""]
        ELSE LET w == TraverseLoop(t, parts, 1, <<>>, FALSE)
                 key == parts[Len(parts)]
             IN  IF ~w.ok THEN failed(w.tree)
                 ELSE IF w.tree[w.current].type # "folder" THEN failed(w.tree)
                 ELSE [tree |-> w.tree, hasParent |-> TRUE, parent |-> w.current,
                       hasNode |-> Append(w.current, key) \in DOMAIN w.tree
                                        \/ key \in InheritedNames,
                       node |-> Append(w.current, key), key |-> key]

\* traversePath(tree, path, createParents): {parent, node, key}, and the tree
\* as the call leaves it.  hasParent / hasNode say whether parent / node are
\* non-null; parent and node are then the paths of those nodes.  For an
\* inherited key that is no child, node is the inherited value and its path is
\* not in the tree.
traversePath(t, path, createParents) ==
    LET parts == PathParts(path)
        failed(tr) == [tree |-> tr, hasParent |-> FALSE, parent |-> <<>>,
                       hasNode |-> FALSE, node |-> <<>>, key |-> ""]
    IN  IF Len(parts) = 0
        THEN [tree |-> t, hasParent |-> FALSE, parent |-> <<>>,
              hasNode |-> TRUE, node |-> <<>>, key |-> ""]
        ELSE LET w == TraverseLoop(t, parts, 1, <<>>, createParents)
                 key == parts[Len(parts)]
             IN  IF ~w.ok THEN failed(w.tree)
                 ELSE IF w.tree[w.current].type # "folder" THEN failed(w.tree)
                 ELSE [tree |-> w.tree, hasParent |-> TRUE, parent |-> w.current,
                       hasNode |-> Append(w.current, key) \in DOMAIN w.tree
                                        \/ key \in InheritedNames,
                       node |-> Append(w.current, key), key |-> key]

\* -------------------------------------------- file system: applyFileOperations

\* op.content || ''
ContentOrEmpty(c) == IF c = Undefined \/ c = "" THEN "" ELSE c

\* A faulty rename: a node of the same type and content is made at the new
\* place, without what was below the old one.
ApplyOperationRecreatingNode(t, op) ==
    CASE op.operation \in {"CREATE_FILE", "UPDATE_FILE"} ->
            LET r == traversePath(t, op.path, TRUE)
            IN  IF r.hasParent /\ r.key # ""
                THEN [tree |-> SetChild(r.tree, Append(r.parent, r.key),
                                        (<<>> :> FileNode(ContentOrEmpty(op.content)))),
                      threw |-> FALSE]
                ELSE [tree |-> r.tree, threw |-> TRUE]
      [] op.operation = "CREATE_FOLDER" ->
            LET r == traversePath(t, op.path, TRUE)
            IN  IF r.hasParent /\ r.key # "" /\ ~r.hasNode
                THEN [tree |-> SetChild(r.tree, Append(r.parent, r.key), (<<>> :> Folder)),
                      threw |-> FALSE]
                ELSE IF ~r.hasParent \/ r.key = ""
                THEN [tree |-> r.tree, threw |-> TRUE]
                ELSE [tree |-> r.tree, threw |-> FALSE]
      [] op.operation \in {"DELETE_FILE", "DELETE_FOLDER"} ->
            LET r == traversePath(t, op.path, FALSE)
            IN  IF r.hasParent /\ r.hasNode /\ r.key # ""
                THEN [tree |-> DeleteChild(r.tree, r.node), threw |-> FALSE]
                ELSE [tree |-> r.tree, threw |-> FALSE]
      [] op.operation \in {"RENAME_FILE", "RENAME_FOLDER"} ->
            IF op.newPath = NoPath \/ op.newPath = <<"">>
            THEN [tree |-> t, threw |-> TRUE]
            ELSE LET old == traversePath(t, op.path, FALSE)
                 IN  IF ~old.hasParent \/ ~old.hasNode \/ old.key = ""
                     THEN [tree |-> old.tree, threw |-> TRUE]
                     ELSE LET node == IF old.node \in DOMAIN old.tree
                                      THEN (<<>> :> old.tree[old.node])
                                      ELSE (<<>> :> InheritedValue)
                              removed == DeleteChild(old.tree, old.node)
                              new == traversePath(removed, op.newPath, TRUE)
                          IN  IF new.hasParent /\ new.key # ""
                              THEN [tree |-> SetChild(new.tree, Append(new.parent, new.key), node),
                                    threw |-> FALSE]
                              ELSE [tree |-> new.tree, threw |-> TRUE]
      [] OTHER -> [tree |-> t, threw |-> FALSE]

\* One iteration of the for loop of applyFileOperations: the switch on
\* op.operation inside the try.  threw says whether the catch ran.
ApplyOperation(t, op) ==
    CASE op.operation \in {"CREATE_FILE", "UPDATE_FILE"} ->
            LET r == traversePath(t, op.path, TRUE)
            IN  IF r.hasParent /\ r.key # ""
                THEN [tree |-> SetChild(r.tree, Append(r.parent, r.key),
                                        (<<>> :> FileNode(ContentOrEmpty(op.content)))),
                      threw |-> FALSE]
                ELSE [tree |-> r.tree, threw |-> TRUE]
      [] op.operation = "CREATE_FOLDER" ->
            LET r == traversePath(t, op.path, TRUE)
            IN  IF r.hasParent /\ r.key # "" /\ ~r.hasNode
                THEN [tree |-> SetChild(r.tree, Append(r.parent, r.key), (<<>> :> Folder)),
                      threw |-> FALSE]
                ELSE IF ~r.hasParent \/ r.key = ""
                THEN [tree |-> r.tree, threw |-> TRUE]
                ELSE [tree |-> r.tree, threw |-> FALSE]
      [] op.operation \in {"DELETE_FILE", "DELETE_FOLDER"} ->
            LET r == traversePath(t, op.path, FALSE)
            IN  IF r.hasParent /\ r.hasNode /\ r.key # ""
                THEN [tree |-> DeleteChild(r.tree, r.node), threw |-> FALSE]
                ELSE [tree |-> r.tree, threw |-> FALSE]
      [] op.operation \in {"RENAME_FILE", "RENAME_FOLDER"} ->
            IF op.newPath = NoPath \/ op.newPath = <<"">>
            THEN [tree |-> t, threw |-> TRUE]
            ELSE LET old == traversePath(t, op.path, FALSE)
                 IN  IF ~old.hasParent \/ ~old.hasNode \/ old.key = ""
                     THEN [tree |-> old.tree, threw |-> TRUE]
                     ELSE LET node == IF old.node \in DOMAIN old.tree
                                      THEN NodeAt(old.tree, old.node)
                                      ELSE (<<>> :> InheritedValue)
                              removed == DeleteChild(old.tree, old.node)
                              new == traversePath(removed, op.newPath, TRUE)
                          IN  IF new.hasParent /\ new.key # ""
                              THEN [tree |-> SetChild(new.tree, Append(new.parent, new.key), node),
                                    threw |-> FALSE]
                              ELSE [tree |-> new.tree, threw |-> TRUE]
      [] OTHER -> [tree |-> t, threw |-> FALSE]

\* The for loop of applyFileOperations over operations[i ..], on the working
\* clone newTree.
RECURSIVE ApplyLoop(_, _, _)
ApplyLoop(newTree, operations, i) ==
    IF i > Len(operations) THEN newTree
    ELSE ApplyLoop(ApplyOperation(newTree, operations[i]).tree, operations, i + 1)

\* JSON.parse(JSON.stringify(tree)): a tree with the same paths and nodes,
\* but for a child that is a function, which JSON.stringify leaves out.
JSONClone(tree) == [q \in {q \in DOMAIN tree : tree[q].type # "function"} |-> tree[q]]

\* applyFileOperations(tree, operations)
applyFileOperations(tree, operations) == ApplyLoop(JSONClone(tree), operations, 1)

\* ----------------------------------------------- file system: findNodeByPath

\* The for loop of findNodeByPath over parts[i ..], with current the path of
\* the node reached.  For an inherited name that is no child, current becomes
\* the inherited value: it is returned when the name is the last part, and
\* its type fails the test of the next iteration otherwise.
RECURSIVE FindLoop(_, _, _, _)
FindLoop(tree, parts, i, current) ==
    IF i > Len(parts) THEN [found |-> TRUE, node |-> current]
    ELSE IF tree[current].type = "folder" /\ Append(current, parts[i]) \in DOMAIN tree
    THEN FindLoop(tree, parts, i + 1, Append(current, parts[i]))
    ELSE IF tree[current].type = "folder" /\ parts[i] \in InheritedNames
    THEN [found |-> i = Len(parts), node |-> IF i = Len(parts) THEN Append(current, parts[i])
                                             ELSE <<>>]
    ELSE [found |-> FALSE, node |-> <<>>]

\* findNodeByPath(path, tree): the node (by its path in the tree), or null.
findNodeByPath(path, tree) == FindLoop(tree, PathParts(path), 1, <<>>)

\* --------------------------------------------- file system: updateFileContent

\* updateFileContent(tree, path, newContent): the content of the file at the
\* path is replaced; a path that names no file leaves the clone as the tree.
updateFileContent(tree, path, newContent) ==
    LET r == traversePath(JSONClone(tree), path, FALSE)
    IN  IF r.hasNode /\ r.node \in DOMAIN r.tree /\ r.tree[r.node].type = "file"
        THEN [r.tree EXCEPT ![r.node] = FileNode(newContent)]
        ELSE r.tree

\* ------------------------------------------- file system: the object graph
\* applyFileOperations once more, on the objects themselves: the working
\* clone as a graph of objects with identities, a folder's children being
\* references.  Here a node could come to hang under two parents or under
\* itself, which a map from paths to nodes cannot express.

\* The identity of an object: those of the clone are told apart by the path
\* they were cloned from, those made during the call by a counter.
ObjectId(path, n) == [path |-> path, n |-> n]

\* newTree, the root of the clone.
RootObject == ObjectId(<<>>, 0)

NoChildren == [name \in {} |-> RootObject]

\* { type: 'folder', children }
FolderObject(children) == [type |-> "folder", content |-> "", children |-> children]

\* { type: 'file', content }
FileObject(c) == [type |-> "file", content |-> c, children |-> NoChildren]

\* The function children[name] is for an inherited name: one object, which
\* every children object answers with.
FunctionObject == [type |-> "function", content |-> "", children |-> NoChildren]

InheritedObject == ObjectId(<<>>, -2)

\* The objects of the tree the caller passes in, the root being
\* ObjectId(<<>>, -1): what the parameter tree refers to.
InputObjects(t) ==
    [id \in {ObjectId(q, -1) : q \in DOMAIN t} |->
        IF t[id.path].type = "folder"
        THEN FolderObject(
                [name \in {q[Len(q)] : q \in {q \in DOMAIN t :
                                Len(q) = Len(id.path) + 1 /\ IsPrefix(id.path, q)}}
                    |-> ObjectId(Append(id.path, name), -1)])
        ELSE IF t[id.path].type = "function" THEN FunctionObject
        ELSE FileObject(t[id.path].content)]

\* A faulty clone: a new root object whose children are the objects of the
\* tree passed in (a copy one level deep).
CloneOfSharingChildren(t) ==
    [objects |->
        (RootObject :>
            FolderObject([name \in {q[1] : q \in {q \in DOMAIN t : Len(q) = 1}}
                            |-> ObjectId(<<name>>, -1)])),
     fresh |-> 1]

\* JSON.parse(JSON.stringify(tree)): one new object for each node of the tree
\* that is a file or a folder; beside them the inherited function, which is
\* there for every call.
CloneOf(t) ==
    [objects |->
        [id \in {ObjectId(q, 0) : q \in DOMAIN JSONClone(t)} |->
            IF t[id.path].type = "folder"
            THEN FolderObject(
                    [name \in {q[Len(q)] : q \in {q \in DOMAIN JSONClone(t) :
                                    Len(q) = Len(id.path) + 1 /\ IsPrefix(id.path, q)}}
                        |-> ObjectId(Append(id.path, name), 0)])
            ELSE FileObject(t[id.path].content)]
        @@ (InheritedObject :> FunctionObject),
     fresh |-> 1]

\* An object literal evaluated during the call: a new object in the graph.
WithNewObject(g, object) ==
    [objects |-> g.objects @@ (ObjectId(<<>>, g.fresh) :> object), fresh |-> g.fresh + 1]

\* parent.children[key] = child
LinkChild(g, parent, key, child) ==
    [g EXCEPT !.objects[parent].children = (key :> child) @@ @]

\* delete parent.children[key]
UnlinkChild(g, parent, key) ==
    [g EXCEPT !.objects[parent].children = [name \in (DOMAIN @) \ {key} |-> @[name]]]

\* The for loop of traversePath, current being a reference.
RECURSIVE GraphTraverseLoop(_, _, _, _, _)
GraphTraverseLoop(g, parts, i, current, createParents) ==
    IF i > Len(parts) - 1 THEN [ok |-> TRUE, graph |-> g, current |-> current]
    ELSE IF g.objects[current].type # "folder"
    THEN [ok |-> FALSE, graph |-> g, current |-> current]
    ELSE IF parts[i] \notin DOMAIN g.objects[current].children
    THEN IF parts[i] \in InheritedNames
         THEN [ok |-> FALSE, graph |-> g, current |-> current]
         ELSE IF createParents
         THEN LET child == ObjectId(<<>>, g.fresh)
                  made == LinkChild(WithNewObject(g, FolderObject(NoChildren)),
                                    current, parts[i], child)
              IN  GraphTraverseLoop(made, parts, i + 1, child, createParents)
         ELSE [ok |-> FALSE, graph |-> g, current |-> current]
    ELSE GraphTraverseLoop(g, parts, i + 1, g.objects[current].children[parts[i]],
                           createParents)

\* traversePath on the graph: parent and node are references.
GraphTraversePath(g, path, createParents) ==
    LET parts == PathParts(path)
        failed(gr) == [graph |-> gr, hasParent |-> FALSE, parent |-> RootObject,
                       hasNode |-> FALSE, node |-> RootObject, key |-> ""]
    IN  IF Len(parts) = 0
        THEN [graph |-> g, hasParent |-> FALSE, parent |-> RootObject,
              hasNode |-> TRUE, node |-> RootObject, key |-> ""]
        ELSE LET w == GraphTraverseLoop(g, parts, 1, RootObject, createParents)
                 key == parts[Len(parts)]
             IN  IF ~w.ok THEN failed(w.graph)
                 ELSE IF w.graph.objects[w.current].type # "folder" THEN failed(w.graph)
                 ELSE LET children == w.graph.objects[w.current].children
                      IN  [graph |-> w.graph, hasParent |-> TRUE, parent |-> w.current,
                           hasNode |-> key \in DOMAIN children \/ key \in InheritedNames,
                           node |-> IF key \in DOMAIN children THEN children[key]
                                    ELSE IF key \in InheritedNames THEN InheritedObject
                                    ELSE RootObject,
                           key |-> key]

\* A faulty rename: the node is put at its new place and left at the old one.
GraphApplyOperationKeepingSource(g, op) ==
    CASE op.operation \in {"CREATE_FILE", "UPDATE_FILE"} ->
            LET r == GraphTraversePath(g, op.path, TRUE)
            IN  IF r.hasParent /\ r.key # ""
                THEN LinkChild(WithNewObject(r.graph, FileObject(ContentOrEmpty(op.content))),
                               r.parent, r.key, ObjectId(<<>>, r.graph.fresh))
                ELSE r.graph
      [] op.operation = "CREATE_FOLDER" ->
            LET r == GraphTraversePath(g, op.path, TRUE)
            IN  IF r.hasParent /\ r.key # "" /\ ~r.hasNode
                THEN LinkChild(WithNewObject(r.graph, FolderObject(NoChildren)),
                               r.parent, r.key, ObjectId(<<>>, r.graph.fresh))
                ELSE r.graph
      [] op.operation \in {"DELETE_FILE", "DELETE_FOLDER"} ->
            LET r == GraphTraversePath(g, op.path, FALSE)
            IN  IF r.hasParent /\ r.hasNode /\ r.key # ""
                THEN UnlinkChild(r.graph, r.parent, r.key)
                ELSE r.graph
      [] op.operation \in {"RENAME_FILE", "RENAME_FOLDER"} ->
            IF op.newPath = NoPath \/ op.newPath = <<"">> THEN g
            ELSE LET old == GraphTraversePath(g, op.path, FALSE)
                 IN  IF ~old.hasParent \/ ~old.hasNode \/ old.key = "" THEN old.graph
                     ELSE LET new == GraphTraversePath(old.graph, op.newPath, TRUE)
                          IN  IF new.hasParent /\ new.key # ""
                              THEN LinkChild(new.graph, new.parent, new.key, old.node)
                              ELSE new.graph
      [] OTHER -> g

\* One iteration of the for loop of applyFileOperations on the graph; a
\* throw is caught and leaves what the operation had done by then.
GraphApplyOperation(g, op) ==
    CASE op.operation \in {"CREATE_FILE", "UPDATE_FILE"} ->
            LET r == GraphTraversePath(g, op.path, TRUE)
            IN  IF r.hasParent /\ r.key # ""
                THEN LinkChild(WithNewObject(r.graph, FileObject(ContentOrEmpty(op.content))),
                               r.parent, r.key, ObjectId(<<>>, r.graph.fresh))
                ELSE r.graph
      [] op.operation = "CREATE_FOLDER" ->
            LET r == GraphTraversePath(g, op.path, TRUE)
            IN  IF r.hasParent /\ r.key # "" /\ ~r.hasNode
                THEN LinkChild(WithNewObject(r.graph, FolderObject(NoChildren)),
                               r.parent, r.key, ObjectId(<<>>, r.graph.fresh))
                ELSE r.graph
      [] op.operation \in {"DELETE_FILE", "DELETE_FOLDER"} ->
            LET r == GraphTraversePath(g, op.path, FALSE)
            IN  IF r.hasParent /\ r.hasNode /\ r.key # ""
                THEN UnlinkChild(r.graph, r.parent, r.key)
                ELSE r.graph
      [] op.operation \in {"RENAME_FILE", "RENAME_FOLDER"} ->
            IF op.newPath = NoPath \/ op.newPath = <<"">> THEN g
            ELSE LET old == GraphTraversePath(g, op.path, FALSE)
                 IN  IF ~old.hasParent \/ ~old.hasNode \/ old.key = "" THEN old.graph
                     ELSE LET removed == UnlinkChild(old.graph, old.parent, old.key)
                              new == GraphTraversePath(removed, op.newPath, TRUE)
                          IN  IF new.hasParent /\ new.key # ""
                              THEN LinkChild(new.graph, new.parent, new.key, old.node)
                              ELSE new.graph
      [] OTHER -> g

RECURSIVE GraphApplyLoop(_, _, _)
GraphApplyLoop(g, operations, i) ==
    IF i > Len(operations) THEN g
    ELSE GraphApplyLoop(GraphApplyOperation(g, operations[i]), operations, i + 1)

\* applyFileOperations(tree, operations), the graph under the newTree it
\* returns.
GraphApplyFileOperations(tree, operations) == GraphApplyLoop(CloneOf(tree), operations, 1)

\* The heap when applyFileOperations(tree, operations) returns: the objects
\* of the tree passed in beside those of newTree.
HeapAfterApply(tree, operations) ==
    GraphApplyLoop([objects |-> CloneOf(tree).objects @@ InputObjects(tree), fresh |-> 1],
                   operations, 1)

\* ------------------------------------------------------ file system: inputs

Op(kind, path) == [operation |-> kind, path |-> path, content |-> Undefined, newPath |-> NoPath]

FileOp(kind, path, content) ==
    [operation |-> kind, path |-> path, content |-> content, newPath |-> NoPath]

RenameOp(kind, path, newPath) ==
    [operation |-> kind, path |-> path, content |-> Undefined, newPath |-> newPath]

\* "src", "src/App.tsx", "src/x.tsx", "x.tsx", "src/App.tsx/x.tsx", "/", "".
OpPaths ==
    {<<"src">>, <<"src", "App.tsx">>, <<"src", "x.tsx">>, <<"x.tsx">>,
     <<"src", "App.tsx", "x.tsx">>, <<"", "">>, <<"">>}

\* The operations the file explorer, the upload and the AI payloads are drawn
\* from in the model.
Operations ==
    {FileOp("CREATE_FILE", p, "hi") : p \in OpPaths}
        \cup {FileOp("UPDATE_FILE", <<"src", "App.tsx">>, Undefined)}
        \cup {Op("CREATE_FOLDER", p) : p \in OpPaths}
        \cup {Op("DELETE_FILE", p) : p \in OpPaths}
        \cup {Op("DELETE_FOLDER", <<"src">>)}
        \cup {RenameOp("RENAME_FILE", p, q) :
                p \in {<<"src", "App.tsx">>, <<"src", "x.tsx">>},
                q \in {<<"src", "x.tsx">>, <<"x.tsx">>, <<"src", "App.tsx", "x.tsx">>,
                       <<"", "">>, <<"">>, NoPath}}
        \cup {RenameOp("RENAME_FOLDER", <<"src">>, q) :
                q \in {<<"x.tsx">>, <<"src", "x.tsx">>, <<"", "">>}}

\* "constructor", "src/constructor", "constructor/x.tsx", "src", "src/App.tsx",
\* "src/App.tsx/x.tsx", "".
NamePaths ==
    {<<"constructor">>, <<"src", "constructor">>, <<"constructor", "x.tsx">>,
     <<"src">>, <<"src", "App.tsx">>, <<"src", "App.tsx", "x.tsx">>, <<"">>}

\* Operations on paths some of which hold a name every object inherits; the
\* trees they make hold files and folders only.
NameOperations ==
    {Op("CREATE_FOLDER", p) : p \in NamePaths}
        \cup {FileOp("CREATE_FILE", p, "hi") : p \in NamePaths}
        \cup {Op("DELETE_FILE", p) : p \in NamePaths}
        \cup {RenameOp("RENAME_FILE", <<"src", "App.tsx">>, <<"constructor">>)}

\* The operations an upload or a payload is made of in SpecBatch.
BatchOperations ==
    {FileOp("CREATE_FILE", <<"src", "x.tsx">>, "hi"),
     FileOp("CREATE_FILE", <<"", "">>, "hi"),
     Op("CREATE_FOLDER", <<"x.tsx">>),
     Op("CREATE_FOLDER", <<"src", "App.tsx", "x.tsx">>),
     Op("DELETE_FILE", <<"src", "App.tsx">>),
     RenameOp("RENAME_FILE", <<"src", "App.tsx">>, <<"src", "x.tsx">>),
     RenameOp("RENAME_FILE", <<"src", "x.tsx">>, <<"src", "App.tsx", "x.tsx">>),
     RenameOp("RENAME_FOLDER", <<"src">>, <<"", "">>)}

RECURSIVE SeqsUpTo(_, _)
SeqsUpTo(S, n) ==
    IF n = 0 THEN {<<>>}
    ELSE LET shorter == SeqsUpTo(S, n - 1)
         IN  shorter \cup {Append(s, x) : s \in {s \in shorter : Len(s) = n - 1}, x \in S}

WithinBound(t) == Cardinality(DOMAIN t) <= MaxNodes

\* ------------------------------------------------------------------ texts
\* A text is a sequence of tokens, a token standing for a run of characters
\* that the model never splits: "---" and "JSON_" are the shared head of the
\* two separators, "<fence>" is a code fence of three backquotes, " " and "\n" are whitespace, and
\* the JSON tokens are listed with the decoder.  Chunk boundaries fall between
\* tokens, so a separator may arrive split over several chunks.

blueprintSeparator == <<"---", "JSON_", "BLUEPRINT", "---">>

opsSeparator == <<"---", "JSON_", "OPERATIONS", "---">>

\* The characters \s matches and trim() removes.
Whitespace == {" ", "\n"}

\* text.indexOf(sep): the 0-based index of the first occurrence, or -1.
indexOf(text, sep) ==
    LET hits == {i \in 0..(Len(text) - Len(sep)) : SubSeq(text, i + 1, i + Len(sep)) = sep}
    IN  IF hits = {} THEN -1 ELSE CHOOSE i \in hits : \A j \in hits : i <= j

\* text.substring(from, to) and text.substring(from)
substring(text, from, to) == SubSeq(text, from + 1, to)

substringFrom(text, from) == SubSeq(text, from + 1, Len(text))

\* text.trim()
trim(text) ==
    LET keep == {i \in 1..Len(text) : text[i] \notin Whitespace}
    IN  IF keep = {} THEN <<>>
        ELSE SubSeq(text, CHOOSE i \in keep : \A j \in keep : i <= j,
                          CHOOSE i \in keep : \A j \in keep : i >= j)

\* ----------------------------------------------------------- stream framer

\* A faulty framer: the separators are searched in the chunk that arrived
\* instead of in the accumulated buffer.
FrameChunkSearchingChunk(fullResponseText, chunk) ==
    LET full == fullResponseText \o chunk
        blueprintIdx == indexOf(chunk, blueprintSeparator)
        opsIdx == indexOf(chunk, opsSeparator)
        separatorIdx == IF blueprintIdx # -1 THEN blueprintIdx ELSE opsIdx
    IN  [fullResponseText |-> full,
         conversationalPart |-> IF separatorIdx # -1
                                THEN fullResponseText \o substring(chunk, 0, separatorIdx)
                                ELSE full]

\* A faulty framer: the operations separator is preferred to the blueprint's.
FrameChunkOperationsFirst(fullResponseText, chunk) ==
    LET full == fullResponseText \o chunk
        blueprintIdx == indexOf(full, blueprintSeparator)
        opsIdx == indexOf(full, opsSeparator)
        separatorIdx == IF opsIdx # -1 THEN opsIdx ELSE blueprintIdx
    IN  [fullResponseText |-> full,
         conversationalPart |-> IF separatorIdx # -1 THEN substring(full, 0, separatorIdx)
                                ELSE full]

\* A faulty framer: fullResponseText = chunk in place of fullResponseText += chunk.
FrameChunkReplacingBuffer(fullResponseText, chunk) ==
    LET full == chunk
        blueprintIdx == indexOf(full, blueprintSeparator)
        opsIdx == indexOf(full, opsSeparator)
        separatorIdx == IF blueprintIdx # -1 THEN blueprintIdx ELSE opsIdx
    IN  [fullResponseText |-> full,
         conversationalPart |-> IF separatorIdx # -1 THEN substring(full, 0, separatorIdx)
                                ELSE full]

\* The body of the for-await loop of runAIGeneration up to the state update:
\* the buffer with the chunk appended, and the conversational part of it.
FrameChunk(fullResponseText, chunk) ==
    LET full == fullResponseText \o chunk
        blueprintIdx == indexOf(full, blueprintSeparator)
        opsIdx == indexOf(full, opsSeparator)
        separatorIdx == IF blueprintIdx # -1 THEN blueprintIdx ELSE opsIdx
    IN  [fullResponseText |-> full,
         conversationalPart |-> IF separatorIdx # -1 THEN substring(full, 0, separatorIdx)
                                ELSE full]

\* Which separator the loop cut the buffer at: blueprintIdx !== -1 decides
\* for the blueprint, else opsIdx !== -1 for the operations.
PendingKind(fullResponseText) ==
    IF indexOf(fullResponseText, blueprintSeparator) # -1 THEN "blueprint"
    ELSE IF indexOf(fullResponseText, opsSeparator) # -1 THEN "operations"
    ELSE "none"

\* ---------------------------------------------------------- payload decoder

\* A faulty extraction: jsonPartRaw.trim() alone, the fence left in place.
ExtractJsonStringKeepingFence(jsonPartRaw) == trim(jsonPartRaw)

\* jsonPartRaw.trim().match(/^<fence>(?:json)?\s*([\s\S]*?)\s*<fence>$/)?.[1]
\*     || jsonPartRaw.trim()
\* The pattern needs an opening and a closing fence; the optional tag is
\* taken when it is there; the lazy group, between two \s*, is the rest
\* without its outer whitespace.  An empty group is falsy, and so is no match.
ExtractJsonString(jsonPartRaw) ==
    LET t == trim(jsonPartRaw)
        matched == Len(t) >= 2 /\ t[1] = "<fence>" /\ t[Len(t)] = "<fence>"
        inner == SubSeq(t, 2, Len(t) - 1)
        group == IF inner # <<>> /\ inner[1] = "json" THEN trim(Tail(inner)) ELSE trim(inner)
    IN  IF matched /\ group # <<>> THEN group ELSE t

\* JSON values: {type, items, fields, op}.  An operation literal is a JSON
\* object whose members are those of one FileOperation.
JValue(type, items, fields, op) == [type |-> type, items |-> items, fields |-> fields, op |-> op]

NoOperation == [operation |-> "", path |-> NoPath, content |-> Undefined, newPath |-> NoPath]

JUndefined == JValue("undefined", <<>>, <<>>, NoOperation)

JNull == JValue("null", <<>>, <<>>, NoOperation)

JString == JValue("string", <<>>, <<>>, NoOperation)

\* The operation literals of the payloads: each token is the JSON text of the
\* FileOperation it maps to.
OperationLiterals ==
    ("{CREATE_FILE src/x.tsx hi}" :> FileOp("CREATE_FILE", <<"src", "x.tsx">>, "hi"))
        @@ ("{DELETE_FILE src/App.tsx}" :> Op("DELETE_FILE", <<"src", "App.tsx">>))
        @@ ("{RENAME_FILE src/App.tsx -> x.tsx}"
                :> RenameOp("RENAME_FILE", <<"src", "App.tsx">>, <<"x.tsx">>))

\* The member names of the payload objects, each token a name with its colon.
MemberKeys == ("\"operations\":" :> "operations") @@ ("\"name\":" :> "name")

ParseFailure == [ok |-> FALSE, value |-> JUndefined, next |-> 0]

\* JSON.parse, as a recursive descent over the tokens left when the
\* whitespace between them is dropped: value, array elements, object members.
RECURSIVE ParseValue(_, _), ParseElements(_, _, _), ParseMembers(_, _, _)
ParseValue(toks, i) ==
    IF i > Len(toks) THEN ParseFailure
    ELSE CASE toks[i] = "null" -> [ok |-> TRUE, value |-> JNull, next |-> i + 1]
           [] toks[i] = "\"str\"" -> [ok |-> TRUE, value |-> JString, next |-> i + 1]
           [] toks[i] \in DOMAIN OperationLiterals ->
                [ok |-> TRUE, value |-> JValue("object", <<>>, <<>>, OperationLiterals[toks[i]]),
                 next |-> i + 1]
           [] toks[i] = "[" ->
                IF i + 1 <= Len(toks) /\ toks[i + 1] = "]"
                THEN [ok |-> TRUE, value |-> JValue("array", <<>>, <<>>, NoOperation),
                      next |-> i + 2]
                ELSE ParseElements(toks, i + 1, <<>>)
           [] toks[i] = "{" ->
                IF i + 1 <= Len(toks) /\ toks[i + 1] = "}"
                THEN [ok |-> TRUE, value |-> JValue("object", <<>>, <<>>, NoOperation),
                      next |-> i + 2]
                ELSE ParseMembers(toks, i + 1, <<>>)
           [] OTHER -> ParseFailure

ParseElements(toks, i, items) ==
    LET v == ParseValue(toks, i)
    IN  IF ~v.ok \/ v.next > Len(toks) THEN ParseFailure
        ELSE IF toks[v.next] = "," THEN ParseElements(toks, v.next + 1, Append(items, v.value))
        ELSE IF toks[v.next] = "]"
        THEN [ok |-> TRUE, value |-> JValue("array", Append(items, v.value), <<>>, NoOperation),
              next |-> v.next + 1]
        ELSE ParseFailure

ParseMembers(toks, i, fields) ==
    IF i > Len(toks) \/ toks[i] \notin DOMAIN MemberKeys THEN ParseFailure
    ELSE LET v == ParseValue(toks, i + 1)
         IN  IF ~v.ok \/ v.next > Len(toks) THEN ParseFailure
             ELSE LET set == (MemberKeys[toks[i]] :> v.value) @@ fields
                  IN  IF toks[v.next] = "," THEN ParseMembers(toks, v.next + 1, set)
                      ELSE IF toks[v.next] = "}"
                      THEN [ok |-> TRUE, value |-> JValue("object", <<>>, set, NoOperation),
                            next |-> v.next + 1]
                      ELSE ParseFailure

\* JSON.parse(text): ok is FALSE where it throws a SyntaxError.
JSONparse(text) ==
    LET toks == SelectSeq(text, LAMBDA c : c \notin Whitespace)
        r == ParseValue(toks, 1)
    IN  IF r.ok /\ r.next = Len(toks) + 1 THEN [ok |-> TRUE, value |-> r.value]
        ELSE [ok |-> FALSE, value |-> JUndefined]

\* A JSON value read as FileOperation[]: the elements of an array, each an
\* operation literal or a value no case of the switch applies to.
AsOperations(v) == [i \in 1..Len(v.items) |-> v.items[i].op]

\* The blueprint branch of the final framing: JSON.parse(jsonString) as
\* AppBlueprint.  threw says whether the catch rethrew.
DecodeBlueprint(jsonPartRaw) ==
    LET parsed == JSONparse(ExtractJsonString(jsonPartRaw))
    IN  [threw |-> ~parsed.ok, blueprint |-> parsed.value]

\* The operations branch: (JSON.parse(jsonString)).operations || [].  Reading
\* .operations of null throws; of any other value without the member it is
\* undefined; a null member is falsy.
DecodeOperations(jsonPartRaw) ==
    LET parsed == JSONparse(ExtractJsonString(jsonPartRaw))
    IN  IF ~parsed.ok \/ parsed.value.type = "null" THEN [threw |-> TRUE, fileOps |-> <<>>]
        ELSE IF "operations" \in DOMAIN parsed.value.fields
                /\ parsed.value.fields["operations"].type # "null"
        THEN [threw |-> FALSE, fileOps |-> AsOperations(parsed.value.fields["operations"])]
        ELSE [threw |-> FALSE, fileOps |-> <<>>]

\* A faulty final framing: the text of a response without separator is
\* trimmed as the conversational parts before a separator are.
FinalFramingTrimmingText(fullResponseText, isAutoPilot) ==
    LET blueprintIndex == indexOf(fullResponseText, blueprintSeparator)
        opsIndex == indexOf(fullResponseText, opsSeparator)
        result(threw, error, status, content, fileOps, blueprint) ==
            [threw |-> threw, error |-> error, status |-> status,
             finalConversationalPart |-> content, fileOps |-> fileOps, blueprint |-> blueprint]
    IN  IF blueprintIndex # -1
        THEN LET d == DecodeBlueprint(substringFrom(fullResponseText,
                                        blueprintIndex + Len(blueprintSeparator)))
                 content == trim(substring(fullResponseText, 0, blueprintIndex))
             IN  IF d.threw
                 THEN result(TRUE, "Failed to parse blueprint from AI.", "error",
                             content, <<>>, JUndefined)
                 ELSE result(FALSE, "", "pending_blueprint_approval", content, <<>>,
                             IF d.blueprint.type = "null" THEN JUndefined ELSE d.blueprint)
        ELSE IF opsIndex # -1
        THEN LET d == DecodeOperations(substringFrom(fullResponseText,
                                        opsIndex + Len(opsSeparator)))
                 content == trim(substring(fullResponseText, 0, opsIndex))
             IN  IF d.threw
                 THEN result(TRUE, "Failed to parse file operations from AI.", "error",
                             content, <<>>, JUndefined)
                 ELSE result(FALSE, "", IF isAutoPilot THEN "completed" ELSE "pending_confirmation",
                             content, d.fileOps, JUndefined)
        ELSE result(FALSE, "", "completed", trim(fullResponseText), <<>>, JUndefined)

\* A faulty final framing: opsIndex is tested before blueprintIndex.
FinalFramingOperationsFirst(fullResponseText, isAutoPilot) ==
    LET blueprintIndex == indexOf(fullResponseText, blueprintSeparator)
        opsIndex == indexOf(fullResponseText, opsSeparator)
        result(threw, error, status, content, fileOps, blueprint) ==
            [threw |-> threw, error |-> error, status |-> status,
             finalConversationalPart |-> content, fileOps |-> fileOps, blueprint |-> blueprint]
    IN  IF opsIndex # -1
        THEN LET d == DecodeOperations(substringFrom(fullResponseText,
                                        opsIndex + Len(opsSeparator)))
                 content == trim(substring(fullResponseText, 0, opsIndex))
             IN  IF d.threw
                 THEN result(TRUE, "Failed to parse file operations from AI.", "error",
                             content, <<>>, JUndefined)
                 ELSE result(FALSE, "", IF isAutoPilot THEN "completed" ELSE "pending_confirmation",
                             content, d.fileOps, JUndefined)
        ELSE IF blueprintIndex # -1
        THEN LET d == DecodeBlueprint(substringFrom(fullResponseText,
                                        blueprintIndex + Len(blueprintSeparator)))
                 content == trim(substring(fullResponseText, 0, blueprintIndex))
             IN  IF d.threw
                 THEN result(TRUE, "Failed to parse blueprint from AI.", "error",
                             content, <<>>, JUndefined)
                 ELSE result(FALSE, "", "pending_blueprint_approval", content, <<>>,
                             IF d.blueprint.type = "null" THEN JUndefined ELSE d.blueprint)
        ELSE result(FALSE, "", "completed", fullResponseText, <<>>, JUndefined)

\* A faulty final framing: the catch of a decoding does not rethrow, so the
\* round goes on with status completed and no payload.
FinalFramingSwallowingFailure(fullResponseText, isAutoPilot) ==
    LET blueprintIndex == indexOf(fullResponseText, blueprintSeparator)
        opsIndex == indexOf(fullResponseText, opsSeparator)
        result(threw, error, status, content, fileOps, blueprint) ==
            [threw |-> threw, error |-> error, status |-> status,
             finalConversationalPart |-> content, fileOps |-> fileOps, blueprint |-> blueprint]
    IN  IF blueprintIndex # -1
        THEN LET d == DecodeBlueprint(substringFrom(fullResponseText,
                                        blueprintIndex + Len(blueprintSeparator)))
                 content == trim(substring(fullResponseText, 0, blueprintIndex))
             IN  IF d.threw
                 THEN result(FALSE, "", "completed", content, <<>>, JUndefined)
                 ELSE result(FALSE, "", "pending_blueprint_approval", content, <<>>,
                             IF d.blueprint.type = "null" THEN JUndefined ELSE d.blueprint)
        ELSE IF opsIndex # -1
        THEN LET d == DecodeOperations(substringFrom(fullResponseText,
                                        opsIndex + Len(opsSeparator)))
                 content == trim(substring(fullResponseText, 0, opsIndex))
             IN  IF d.threw
                 THEN result(FALSE, "", "completed", content, <<>>, JUndefined)
                 ELSE result(FALSE, "", IF isAutoPilot THEN "completed" ELSE "pending_confirmation",
                             content, d.fileOps, JUndefined)
        ELSE result(FALSE, "", "completed", fullResponseText, <<>>, JUndefined)

\* The final framing of runAIGeneration, from the declaration of finalConversationalPart
\* to the end of the if / else if: what the state update and the catch are
\* given.  blueprint || undefined is taken here: null is the one falsy value.
FinalFraming(fullResponseText, isAutoPilot) ==
    LET blueprintIndex == indexOf(fullResponseText, blueprintSeparator)
        opsIndex == indexOf(fullResponseText, opsSeparator)
        result(threw, error, status, content, fileOps, blueprint) ==
            [threw |-> threw, error |-> error, status |-> status,
             finalConversationalPart |-> content, fileOps |-> fileOps, blueprint |-> blueprint]
    IN  IF blueprintIndex # -1
        THEN LET d == DecodeBlueprint(substringFrom(fullResponseText,
                                        blueprintIndex + Len(blueprintSeparator)))
                 content == trim(substring(fullResponseText, 0, blueprintIndex))
             IN  IF d.threw
                 THEN result(TRUE, "Failed to parse blueprint from AI.", "error",
                             content, <<>>, JUndefined)
                 ELSE result(FALSE, "", "pending_blueprint_approval", content, <<>>,
                             IF d.blueprint.type = "null" THEN JUndefined ELSE d.blueprint)
        ELSE IF opsIndex # -1
        THEN LET d == DecodeOperations(substringFrom(fullResponseText,
                                        opsIndex + Len(opsSeparator)))
                 content == trim(substring(fullResponseText, 0, opsIndex))
             IN  IF d.threw
                 THEN result(TRUE, "Failed to parse file operations from AI.", "error",
                             content, <<>>, JUndefined)
                 ELSE result(FALSE, "", IF isAutoPilot THEN "completed" ELSE "pending_confirmation",
                             content, d.fileOps, JUndefined)
        ELSE result(FALSE, "", "completed", fullResponseText, <<>>, JUndefined)

\* ------------------------------------------------------------------ tasks

\* task.assistantResponse: absent, {content} while chunks arrive, and
\* {content, operations, blueprint} from the final update.
NoResponse ==
    [present |-> FALSE, content |-> <<>>, hasOperations |-> FALSE, operations |-> <<>>,
     blueprint |-> JUndefined]

ChunkResponse(content) ==
    [present |-> TRUE, content |-> content, hasOperations |-> FALSE, operations |-> <<>>,
     blueprint |-> JUndefined]

FinalResponse(content, operations, blueprint) ==
    [present |-> TRUE, content |-> content, hasOperations |-> TRUE, operations |-> operations,
     blueprint |-> blueprint]

\* const newTask: AITask = { id, userPrompt, status: 'running', timestamp, type }
NewTask(id, type) ==
    [id |-> id, status |-> "running", type |-> type, assistantResponse |-> NoResponse,
     error |-> ""]

TaskIds == {tasks[i].id : i \in DOMAIN tasks}

\* ws.tasks.find(t => t.id === taskId), for an id of TaskIds
TaskById(taskId) == tasks[CHOOSE i \in DOMAIN tasks : tasks[i].id = taskId]

\* ws.tasks.map(task => task.id === taskId ? { ...task, ...changes } : task)
MapTask(taskId, changes) ==
    [i \in DOMAIN tasks |-> IF tasks[i].id = taskId THEN changes @@ tasks[i] ELSE tasks[i]]

\* A call of runAIGeneration in flight: its taskId and isAutoPilot arguments,
\* the text the source is yet to deliver (stream), the text it delivers in
\* all (response, history), and the locals fullResponseText and
\* conversationalPart.
NewRound(taskId, isAutoPilot, response) ==
    [task |-> taskId, isAutoPilot |-> isAutoPilot, response |-> response, stream |-> response,
     fullResponseText |-> <<>>, conversationalPart |-> <<>>]

RemoveAt(seq, i) == SubSeq(seq, 1, i - 1) \o SubSeq(seq, i + 1, Len(seq))

\* ------------------------------------------- persistence and picker: data

\* What is under the key quantum_code_workspaces: nothing (getItem returns
\* null), the text JSON.stringify(workspaces) of a save, or a text that
\* JSON.parse or the mapping of the loaded value throws on.
NoWorkspaces == [state |-> "absent", fileSystem |-> INITIAL_FILES, tasks |-> <<>>]

SavedWorkspaces(tree, ts) == [state |-> "saved", fileSystem |-> tree, tasks |-> ts]

CorruptWorkspaces == [state |-> "corrupt", fileSystem |-> INITIAL_FILES, tasks |-> <<>>]

\* What is under the key quantum_code_ui_states.
NoUiStates == [state |-> "absent", isAutoPilotOn |-> FALSE]

SavedUiStates(on) == [state |-> "saved", isAutoPilotOn |-> on]

\* The first start: nothing is saved yet and App is mounted.
FirstStart ==
    /\ storage = [workspaces |-> NoWorkspaces, uiStates |-> NoUiStates]
    /\ mounted = TRUE

\* No interval is set, the auto-pilot effect not having run yet.
NoInterval == [set |-> FALSE, elapsed |-> 0, seen |-> <<>>]

TimerIdle == interval = NoInterval

\* The delay of setInterval in the auto-pilot effect, in milliseconds.
IntervalPeriod == 10000

\* The elements of the previewed page a mouse event can have as its target.
PageElements == {"h1", "button"}

\* null, where an element or a descriptor is expected.
NoElement == "<null>"

\* The previewed page: div#root in the body, and in it an h1 and a button that
\* comes after the h1 and another button.  previous holds the node names of
\* the element siblings before the element.
DocumentNode == "#document"

Dom ==
    [html |-> [nodeName |-> "html", id |-> "", parentNode |-> DocumentNode, previous |-> <<>>],
     body |-> [nodeName |-> "body", id |-> "", parentNode |-> "html", previous |-> <<"head">>],
     root |-> [nodeName |-> "div", id |-> "root", parentNode |-> "body", previous |-> <<>>],
     h1 |-> [nodeName |-> "h1", id |-> "", parentNode |-> "root", previous |-> <<>>],
     button |-> [nodeName |-> "button", id |-> "", parentNode |-> "root",
                 previous |-> <<"h1", "button">>]]

\* target.textContent, as a text of tokens.
TextContent == [h1 |-> <<" ", "Hello", "\n">>, button |-> <<"Go">>]

\* The while loop of getSelector from el upwards: a segment is the node name,
\* the id after # (none: ""), and the n of :nth-of-type(n) (none: 1); the
\* selector is the segments joined by " > ".
RECURSIVE SelectorLoop(_, _)
SelectorLoop(el, path) ==
    IF el = DocumentNode THEN path
    ELSE LET d == Dom[el]
             nth == 1 + Cardinality({k \in DOMAIN d.previous : d.previous[k] = d.nodeName})
         IN  IF d.id # ""
             THEN <<[tag |-> d.nodeName, id |-> d.id, nth |-> 1]>> \o path
             ELSE SelectorLoop(d.parentNode,
                               <<[tag |-> d.nodeName, id |-> "", nth |-> nth]>> \o path)

\* getSelector(el)
getSelector(el) == SelectorLoop(el, <<>>)

transientHighlightStyle == "2px solid #3b82f6"

permanentHighlightStyle == "3px solid #f59e0b"

\* The messages of the channel, by their type field.
ToggleSelector(enabled) ==
    [type |-> "toggle-selector", enabled |-> enabled, selector |-> <<>>, text |-> <<>>]

ClearSelection ==
    [type |-> "clear-selection", enabled |-> FALSE, selector |-> <<>>, text |-> <<>>]

ElementSelected(selector, text) ==
    [type |-> "element-selected", enabled |-> FALSE, selector |-> selector, text |-> text]

\* The console message the console script posts for a call of console[level],
\* message being the serialized arguments.
ConsoleMessage(level, message) == [type |-> "console", level |-> level, message |-> message]

\* validLevels of handleMessage.
validLevels == {"log", "debug", "info", "warn", "error"}

\* The keys of window.console the previewed page calls: table is one the host
\* does not know as a level.
ConsoleKeys == {"log", "error", "table"}

\* The 50 of slice(0, 50) in onConsoleLog.
LogWindow == 50

\* event.source: the contentWindow of the iframe, the window of the host
\* itself, or null; internalRef.current?.contentWindow is undefined while no
\* iframe is rendered.
PreviewWindow == "contentWindow"

OtherSources == {"window", "<null>"}

\* selectedElementInfo: null, or the descriptor { selector, text }.
NoSelection == [state |-> "null", selector |-> <<>>, text |-> <<>>]

SelectedElement(selector, text) == [state |-> "set", selector |-> selector, text |-> text]

\* The selector script's variables as its let statements leave them, and no
\* outline on any element.
InitialSurface ==
    [selectorActive |-> FALSE,
     transientHighlightedElement |-> NoElement,
     permanentHighlightedElement |-> NoElement,
     outline |-> [e \in PageElements |-> ""]]

\* useState(false) of isSelectorActive, useState(null) of selectedElementInfo,
\* previewTab of DEFAULT_UI_STATE, useState([]) of consoleLogs; received is
\* the history of the logs handed to onConsoleLog, oldest first.  The
\* timestamp of a log, new Date(), is the number of the log in the history:
\* the clock goes on between two messages.
InitialHost ==
    [isSelectorActive |-> FALSE,
     selectedElementInfo |-> NoSelection,
     activeTab |-> "preview",
     consoleLogs |-> <<>>,
     received |-> <<>>]

\* contentWindow?.postMessage(data, '*') through the ref of the iframe: while
\* no iframe is rendered the ref is null and nothing is posted.
PostToSurface(data) ==
    IF host.activeTab = "preview" THEN Append(toSurface, data) ELSE toSurface

\* One workspace, held in fileSystem and tasks: the list of several is not
\* in use.
OneWorkspace ==
    /\ workspaces = <<>>
    /\ activeWorkspaceId = 1

\* The picker before any use: nothing armed, nothing selected, no message in
\* flight.
PickerIdle ==
    /\ surface = InitialSurface
    /\ host = InitialHost
    /\ toSurface = <<>>
    /\ toHost = <<>>

\* --------------------------------------------------------------- handlers

\* Before any call of handleDirectFileOperations.
NoEvent == [handler |-> "", before |-> INITIAL_FILES, ops |-> <<>>]

\* handleDirectFileOperations(operations)
handleDirectFileOperations(operations) ==
    /\ WithinBound(applyFileOperations(fileSystem, operations))
    /\ fileSystem' = applyFileOperations(fileSystem, operations)
    /\ last' = [handler |-> "handleDirectFileOperations", before |-> fileSystem,
                ops |-> operations]
    /\ UNCHANGED <<tasks, rounds, isAutoPilotOn, started, persistVars, pickerVars, timerVars,
                   workspaceVars>>

\* handleCreateTask(userPrompt): a new user task, the selected element
\* dropped with a clear-selection message to the preview, and
\* runAIGeneration(finalPrompt, imageToSend, taskId) whose stream will deliver
\* response.
handleCreateTask(response) ==
    /\ Len(tasks) < MaxTasks
    /\ Len(rounds) < MaxInFlight
    /\ started < MaxRounds
    /\ started' = started + 1
    /\ tasks' = <<NewTask(Len(tasks) + 1, "user")>> \o tasks
    /\ rounds' = Append(rounds, NewRound(Len(tasks) + 1, FALSE, response))
    /\ host' = [host EXCEPT !.selectedElementInfo = NoSelection]
    /\ toSurface' = PostToSurface(ClearSelection)
    /\ UNCHANGED <<fileSystem, isAutoPilotOn, last, persistVars, surface, toHost, timerVars,
                   workspaceVars>>

\* The interval of the auto-pilot effect firing handleAutoPilotTick: the
\* effect sets the interval only while isAutoPilotOn and no autopilot task is
\* running, and the handler returns if one is.
handleAutoPilotTick(response) ==
    /\ isAutoPilotOn
    /\ ~\E i \in DOMAIN tasks : tasks[i].type = "autopilot" /\ tasks[i].status = "running"
    /\ Len(tasks) < MaxTasks
    /\ Len(rounds) < MaxInFlight
    /\ started < MaxRounds
    /\ started' = started + 1
    /\ tasks' = <<NewTask(Len(tasks) + 1, "autopilot")>> \o tasks
    /\ rounds' = Append(rounds, NewRound(Len(tasks) + 1, TRUE, response))
    /\ UNCHANGED <<fileSystem, isAutoPilotOn, last, persistVars, pickerVars, timerVars, workspaceVars>>

\* onToggleAutoPilot
onToggleAutoPilot ==
    /\ isAutoPilotOn' = ~isAutoPilotOn
    /\ UNCHANGED <<fileSystem, tasks, rounds, last, started, persistVars, pickerVars, timerVars,
                   workspaceVars>>

\* A faulty approval of a blueprint: the implementation round is given a
\* task of its own, as handleCreateTask gives its round.
handleApproveBlueprintAsNewTask(taskId, response) ==
    /\ taskId \in TaskIds
    /\ TaskById(taskId).assistantResponse.blueprint.type # "undefined"
    /\ Len(rounds) < MaxInFlight
    /\ started < MaxRounds
    /\ started' = started + 1
    /\ tasks' = <<NewTask(Len(tasks) + 1, "user")>> \o tasks
    /\ rounds' = Append(rounds, NewRound(Len(tasks) + 1, FALSE, response))
    /\ UNCHANGED <<fileSystem, isAutoPilotOn, last, persistVars, pickerVars, timerVars, workspaceVars>>

\* handleApproveBlueprint(taskId): returns unless the task carries a
\* blueprint; sets it running and calls runAIGeneration(implementationPrompt,
\* null, taskId), isAutoPilot left at its default.
handleApproveBlueprint(taskId, response) ==
    /\ taskId \in TaskIds
    /\ TaskById(taskId).assistantResponse.blueprint.type # "undefined"
    /\ Len(rounds) < MaxInFlight
    /\ started < MaxRounds
    /\ started' = started + 1
    /\ tasks' = MapTask(taskId, [status |-> "running"])
    /\ rounds' = Append(rounds, NewRound(taskId, FALSE, response))
    /\ UNCHANGED <<fileSystem, isAutoPilotOn, last, persistVars, pickerVars, timerVars, workspaceVars>>

\* A faulty approval: the task is completed and its operations are dropped.
handleApproveTaskWithoutApplying(taskId) ==
    /\ taskId \in TaskIds
    /\ LET task == TaskById(taskId)
           applies == task.status = "pending_confirmation"
                        /\ task.assistantResponse.hasOperations
       IN  /\ fileSystem' = fileSystem
           /\ tasks' = IF applies
                       THEN MapTask(taskId, [status |-> "completed"])
                       ELSE tasks
    /\ UNCHANGED <<rounds, isAutoPilotOn, last, started, persistVars, pickerVars, timerVars,
                   workspaceVars>>

\* A faulty approval: the new tree is computed from a tree read before the
\* last direct operations were published, not from the one in the store.
handleApproveTaskFromSnapshot(taskId) ==
    /\ taskId \in TaskIds
    /\ LET task == TaskById(taskId)
           applies == task.status = "pending_confirmation"
                        /\ task.assistantResponse.hasOperations
           newFileSystem == applyFileOperations(last.before, task.assistantResponse.operations)
       IN  /\ applies => WithinBound(newFileSystem)
           /\ fileSystem' = IF applies THEN newFileSystem ELSE fileSystem
           /\ tasks' = IF applies
                       THEN MapTask(taskId, [status |-> "completed"])
                       ELSE tasks
    /\ UNCHANGED <<rounds, isAutoPilotOn, last, started, persistVars, pickerVars, timerVars,
                   workspaceVars>>

\* handleApproveTask(taskId): the updater leaves the workspace as it is unless
\* the task is pending_confirmation and carries operations.
handleApproveTask(taskId) ==
    /\ taskId \in TaskIds
    /\ LET task == TaskById(taskId)
           applies == task.status = "pending_confirmation"
                        /\ task.assistantResponse.hasOperations
           newFileSystem == applyFileOperations(fileSystem, task.assistantResponse.operations)
       IN  /\ applies => WithinBound(newFileSystem)
           /\ fileSystem' = IF applies THEN newFileSystem ELSE fileSystem
           /\ tasks' = IF applies
                       THEN MapTask(taskId, [status |-> "completed"])
                       ELSE tasks
    /\ UNCHANGED <<rounds, isAutoPilotOn, last, started, persistVars, pickerVars, timerVars,
                   workspaceVars>>

\* handleFileContentChange(path, content): the editor's change of a file.
handleFileContentChange(path, content) ==
    /\ fileSystem' = updateFileContent(fileSystem, path, content)
    /\ UNCHANGED <<tasks, rounds, isAutoPilotOn, last, started, persistVars, pickerVars, timerVars,
                   workspaceVars>>

\* handleRejectTask(taskId)
handleRejectTask(taskId) ==
    /\ taskId \in TaskIds
    /\ tasks' = MapTask(taskId, [status |-> "completed"])
    /\ UNCHANGED <<fileSystem, rounds, isAutoPilotOn, last, started, persistVars, pickerVars, timerVars,
                   workspaceVars>>

\* ------------------------------------------------------- runAIGeneration

\* One iteration of the for-await loop of the round in the slot: a chunk of
\* n tokens (or what is left) arrives, the buffer is framed, and the task's
\* assistantResponse becomes { content: conversationalPart }.
StreamChunk(slot, n) ==
    /\ slot \in DOMAIN rounds
    /\ rounds[slot].stream # <<>>
    /\ LET r == rounds[slot]
           size == IF n < Len(r.stream) THEN n ELSE Len(r.stream)
           f == FrameChunk(r.fullResponseText, SubSeq(r.stream, 1, size))
       IN  /\ rounds' = [rounds EXCEPT ![slot] =
                            [r EXCEPT !.stream = SubSeq(r.stream, size + 1, Len(r.stream)),
                                      !.fullResponseText = f.fullResponseText,
                                      !.conversationalPart = f.conversationalPart]]
           /\ tasks' = MapTask(r.task, [assistantResponse |-> ChunkResponse(f.conversationalPart)])
    /\ UNCHANGED <<fileSystem, isAutoPilotOn, last, started, persistVars, pickerVars, timerVars,
                   workspaceVars>>

\* A faulty final update: the operations are applied whatever isAutoPilot is.
StreamEndApplyingAlways(slot) ==
    /\ slot \in DOMAIN rounds
    /\ rounds[slot].stream = <<>>
    /\ LET r == rounds[slot]
           f == FinalFraming(r.fullResponseText, r.isAutoPilot)
           applies == ~f.threw /\ Len(f.fileOps) > 0
           newFileSystem == applyFileOperations(fileSystem, f.fileOps)
       IN  /\ applies => WithinBound(newFileSystem)
           /\ fileSystem' = IF applies THEN newFileSystem ELSE fileSystem
           /\ tasks' = IF f.threw
                       THEN MapTask(r.task, [status |-> "error", error |-> f.error])
                       ELSE MapTask(r.task, [status |-> f.status,
                                          assistantResponse |->
                                              FinalResponse(f.finalConversationalPart,
                                                            f.fileOps, f.blueprint)])
    /\ rounds' = RemoveAt(rounds, slot)
    /\ UNCHANGED <<isAutoPilotOn, last, started, persistVars, pickerVars, timerVars, workspaceVars>>

\* The stream of the round in the slot has ended: the final framing, then
\* either the final state update (which applies the operations when
\* isAutoPilot and there are some) or, when decoding threw, the catch.
StreamEnd(slot) ==
    /\ slot \in DOMAIN rounds
    /\ rounds[slot].stream = <<>>
    /\ LET r == rounds[slot]
           f == FinalFraming(r.fullResponseText, r.isAutoPilot)
           applies == ~f.threw /\ r.isAutoPilot /\ Len(f.fileOps) > 0
           newFileSystem == applyFileOperations(fileSystem, f.fileOps)
       IN  /\ applies => WithinBound(newFileSystem)
           /\ fileSystem' = IF applies THEN newFileSystem ELSE fileSystem
           /\ tasks' = IF f.threw
                       THEN MapTask(r.task, [status |-> "error", error |-> f.error])
                       ELSE MapTask(r.task, [status |-> f.status,
                                          assistantResponse |->
                                              FinalResponse(f.finalConversationalPart,
                                                            f.fileOps, f.blueprint)])
    /\ rounds' = RemoveAt(rounds, slot)
    /\ UNCHANGED <<isAutoPilotOn, last, started, persistVars, pickerVars, timerVars, workspaceVars>>

\* A faulty catch: every task of the workspace is set to error.
StreamFailMarkingAllTasks(slot) ==
    /\ slot \in DOMAIN rounds
    /\ tasks' = [i \in DOMAIN tasks |->
                    [status |-> "error", error |-> "<source error>"] @@ tasks[i]]
    /\ rounds' = RemoveAt(rounds, slot)
    /\ UNCHANGED <<fileSystem, isAutoPilotOn, last, started, persistVars, pickerVars, timerVars,
                   workspaceVars>>

\* The text source fails (runTaskStream rejects or the iteration throws):
\* the catch sets the task to error with the source's message.
StreamFail(slot) ==
    /\ slot \in DOMAIN rounds
    /\ tasks' = MapTask(rounds[slot].task, [status |-> "error", error |-> "<source error>"])
    /\ rounds' = RemoveAt(rounds, slot)
    /\ UNCHANGED <<fileSystem, isAutoPilotOn, last, started, persistVars, pickerVars, timerVars,
                   workspaceVars>>

\* ---------------------------------------------------------- element picker

otherVars ==
    <<fileSystem, tasks, rounds, isAutoPilotOn, last, started, persistVars, timerVars,
      workspaceVars>>

\* A faulty clearHighlights: the permanent highlight is left alone.
clearHighlightsTransientOnly(s) ==
    IF s.transientHighlightedElement # NoElement
    THEN [s EXCEPT !.outline[s.transientHighlightedElement] = "",
                   !.transientHighlightedElement = NoElement]
    ELSE s

\* clearHighlights()
clearHighlights(s) ==
    LET t == IF s.transientHighlightedElement # NoElement
             THEN [s EXCEPT !.outline[s.transientHighlightedElement] = "",
                            !.transientHighlightedElement = NoElement]
             ELSE s
    IN  IF t.permanentHighlightedElement # NoElement
        THEN [t EXCEPT !.outline[t.permanentHighlightedElement] = "",
                       !.permanentHighlightedElement = NoElement]
        ELSE t

\* toggleElementSelector
toggleElementSelector ==
    /\ Len(toSurface) < MaxMessages
    /\ host' = [host EXCEPT !.isSelectorActive = ~host.isSelectorActive]
    /\ toSurface' = PostToSurface(ToggleSelector(~host.isSelectorActive))
    /\ UNCHANGED <<surface, toHost, otherVars>>

\* handleRefresh: the iframe is made anew under its new key, its script
\* starting over; what the old frame sent is not from the new contentWindow
\* and handleMessage returns on it, and what was sent to the old frame is gone
\* with it.
handleRefresh ==
    /\ host' = [host EXCEPT !.isSelectorActive = FALSE]
    /\ surface' = InitialSurface
    /\ toSurface' = <<>>
    /\ toHost' = <<>>
    /\ UNCHANGED otherVars

\* handleClearContext
handleClearContext ==
    /\ Len(toSurface) < MaxMessages
    /\ host' = [host EXCEPT !.selectedElementInfo = NoSelection]
    /\ toSurface' = PostToSurface(ClearSelection)
    /\ UNCHANGED <<surface, toHost, otherVars>>

\* A faulty onConsoleLog: the log is put after the others, so that the window
\* keeps the oldest.
onConsoleLogKeepingOldest(h, log) ==
    LET all == h.consoleLogs \o <<log>>
    IN  [h EXCEPT !.consoleLogs = SubSeq(all, 1, IF Len(all) < LogWindow THEN Len(all)
                                                 ELSE LogWindow),
                  !.received = Append(@, log)]

\* onConsoleLog: setConsoleLogs(prev => [log, ...prev].slice(0, 50)).
onConsoleLog(h, log) ==
    LET all == <<log>> \o h.consoleLogs
    IN  [h EXCEPT !.consoleLogs = SubSeq(all, 1, IF Len(all) < LogWindow THEN Len(all)
                                                 ELSE LogWindow),
                  !.received = Append(@, log)]

\* internalRef.current?.contentWindow: the iframe is rendered on the preview
\* tab only.
contentWindow(h) == IF h.activeTab = "preview" THEN PreviewWindow ELSE "<undefined>"

\* A faulty handleMessage: the level of the message is recorded as it came.
handleMessageKeepingLevel(h, source, data) ==
    IF source # contentWindow(h) THEN h
    ELSE IF data.type = "console"
    THEN LET newLog == [level |-> data.level, message |-> data.message,
                        timestamp |-> Len(h.received) + 1]
             logged == onConsoleLog(h, newLog)
         IN  IF data.level = "error" /\ h.activeTab # "console"
             THEN [logged EXCEPT !.activeTab = "console"]
             ELSE logged
    ELSE IF data.type = "element-selected"
    THEN [h EXCEPT !.isSelectorActive = FALSE,
                   !.selectedElementInfo = SelectedElement(data.selector, data.text)]
    ELSE h

\* A faulty handleMessage: the source of the event is not looked at.
handleMessageOfAnySource(h, source, data) ==
    IF data.type = "console"
    THEN LET logLevel == IF data.level \in validLevels THEN data.level ELSE "log"
             newLog == [level |-> logLevel, message |-> data.message,
                        timestamp |-> Len(h.received) + 1]
             logged == onConsoleLog(h, newLog)
         IN  IF logLevel = "error" /\ h.activeTab # "console"
             THEN [logged EXCEPT !.activeTab = "console"]
             ELSE logged
    ELSE IF data.type = "element-selected"
    THEN [h EXCEPT !.isSelectorActive = FALSE,
                   !.selectedElementInfo = SelectedElement(data.selector, data.text)]
    ELSE h

\* handleMessage of the host for an event with the source and the data: a
\* console message is recorded under its level, or under log when the level
\* is not a valid one, handed to onConsoleLog, and an error brings the
\* console tab forward; an element-selected message goes to onElementSelected
\* (handleElementSelected) and clears isSelectorActive.
handleMessage(h, source, data) ==
    IF source # contentWindow(h) THEN h
    ELSE IF data.type = "console"
    THEN LET logLevel == IF data.level \in validLevels THEN data.level ELSE "log"
             newLog == [level |-> logLevel, message |-> data.message,
                        timestamp |-> Len(h.received) + 1]
             logged == onConsoleLog(h, newLog)
         IN  IF logLevel = "error" /\ h.activeTab # "console"
             THEN [logged EXCEPT !.activeTab = "console"]
             ELSE logged
    ELSE IF data.type = "element-selected"
    THEN [h EXCEPT !.isSelectorActive = FALSE,
                   !.selectedElementInfo = SelectedElement(data.selector, data.text)]
    ELSE h

\* The render after the host's state became newHost: the iframe is rendered
\* on the preview tab only, so a change of tab removes it, or makes a new one
\* whose script starts over; what the removed frame sent or was sent is gone
\* with it.  Otherwise the messages still to be taken by the host are rest.
Rendered(newHost, rest) ==
    /\ host' = newHost
    /\ IF newHost.activeTab # host.activeTab
       THEN /\ surface' = InitialSurface
            /\ toSurface' = <<>>
            /\ toHost' = <<>>
       ELSE /\ toHost' = rest
            /\ UNCHANGED <<surface, toSurface, workspaceVars>>
    /\ UNCHANGED otherVars

\* The message listener of the host takes the next message of the preview.
HostReceive ==
    /\ toHost # <<>>
    /\ Rendered(handleMessage(host, PreviewWindow, Head(toHost)), Tail(toHost))

\* The message listener of the host takes a message some other window
\* posted.
ForeignMessage(source, data) == Rendered(handleMessage(host, source, data), toHost)

\* The buttons of the two tabs: onTabChange(tab).
onTabChange(tab) == Rendered([host EXCEPT !.activeTab = tab], toHost)

\* The previewed page calls console.log("hello"), console.error("error") or
\* console.table("table"): the console script posts the message to the
\* parent.
ConsoleCall(level) ==
    /\ Len(toHost) < MaxMessages
    /\ toHost' = Append(toHost, ConsoleMessage(level, IF level = "log" THEN "hello" ELSE level))
    /\ UNCHANGED <<host, surface, toSurface, otherVars>>

\* The message listener of the selector script for the next message of the
\* host.
SurfaceReceive ==
    /\ toSurface # <<>>
    /\ LET data == Head(toSurface)
           toggled == IF data.type = "toggle-selector"
                      THEN LET s == [surface EXCEPT !.selectorActive = data.enabled]
                           IN  IF ~s.selectorActive THEN clearHighlights(s) ELSE s
                      ELSE surface
       IN  surface' = IF data.type = "clear-selection"
                          /\ toggled.permanentHighlightedElement # NoElement
                      THEN [toggled EXCEPT !.outline[toggled.permanentHighlightedElement] = "",
                                           !.permanentHighlightedElement = NoElement]
                      ELSE toggled
    /\ toSurface' = Tail(toSurface)
    /\ UNCHANGED <<host, toHost, otherVars>>

\* A faulty mouseover listener: the element under the cursor gets the
\* transient highlight even when it is the one permanently highlighted.
MouseOverIgnoringPermanent(target) ==
    /\ surface' =
            IF ~surface.selectorActive THEN surface
            ELSE IF target # surface.transientHighlightedElement
            THEN LET s == IF surface.transientHighlightedElement # NoElement
                          THEN [surface EXCEPT
                                    !.outline[surface.transientHighlightedElement] = ""]
                          ELSE surface
                 IN  [s EXCEPT !.transientHighlightedElement = target,
                               !.outline[target] = transientHighlightStyle]
            ELSE surface
    /\ UNCHANGED <<host, toSurface, toHost, otherVars>>

\* The mouseover listener, e.target being target.
MouseOver(target) ==
    /\ surface' =
            IF ~surface.selectorActive \/ target = surface.permanentHighlightedElement
            THEN surface
            ELSE IF target # surface.transientHighlightedElement
            THEN LET s == IF surface.transientHighlightedElement # NoElement
                          THEN [surface EXCEPT
                                    !.outline[surface.transientHighlightedElement] = ""]
                          ELSE surface
                 IN  [s EXCEPT !.transientHighlightedElement = target,
                               !.outline[target] = transientHighlightStyle]
            ELSE surface
    /\ UNCHANGED <<host, toSurface, toHost, otherVars>>

\* The mouseout listener.
MouseOut ==
    /\ surface' =
            IF ~surface.selectorActive \/ surface.transientHighlightedElement = NoElement
            THEN surface
            ELSE [surface EXCEPT !.outline[surface.transientHighlightedElement] = "",
                                 !.transientHighlightedElement = NoElement]
    /\ UNCHANGED <<host, toSurface, toHost, otherVars>>

\* The click listener, e.target being target.
Click(target) ==
    /\ surface.selectorActive => Len(toHost) < MaxMessages
    /\ IF ~surface.selectorActive
       THEN UNCHANGED <<surface, toHost, workspaceVars>>
       ELSE /\ toHost' = Append(toHost, ElementSelected(getSelector(target),
                                                        trim(TextContent[target])))
            /\ surface' = [clearHighlights(surface) EXCEPT
                                !.permanentHighlightedElement = target,
                                !.outline[target] = permanentHighlightStyle,
                                !.selectorActive = FALSE]
    /\ UNCHANGED <<host, toSurface, otherVars>>

\* ----------------------------------------------------- several workspaces

\* const newWorkspace: Workspace = { id, name, fileSystem: INITIAL_FILES, tasks: [], createdAt }
NewWorkspace(id) == [id |-> id, fileSystem |-> INITIAL_FILES, tasks |-> <<>>]

WorkspaceIds == {workspaces[i].id : i \in DOMAIN workspaces}

\* workspaces.find(w => w.id === id), for an id of WorkspaceIds
WorkspaceById(id) == workspaces[CHOOSE i \in DOMAIN workspaces : workspaces[i].id = id]

\* prev.map(ws => ws.id !== id ? ws : { ...ws, ...changes })
MapWorkspace(id, changes) ==
    [i \in DOMAIN workspaces |->
        IF workspaces[i].id = id THEN changes @@ workspaces[i] ELSE workspaces[i]]

\* ws.tasks.map(task => task.id === taskId ? { ...task, ...changes } : task)
MapTaskIn(ts, taskId, changes) ==
    [i \in DOMAIN ts |-> IF ts[i].id = taskId THEN changes @@ ts[i] ELSE ts[i]]

\* A runAIGeneration call: activeWorkspaceId is that of the render the
\* callback was made in, and stays what it was for the whole call.
WorkspaceRound(id, taskId, isAutoPilot, response) ==
    [activeWorkspaceId |-> id] @@ NewRound(taskId, isAutoPilot, response)

\* A state update of a runAIGeneration call has run: whether one has run
\* while the active workspace was not the workspace of the call.
RoundEvent(r) ==
    IF r.activeWorkspaceId # activeWorkspaceId
    THEN [handler |-> "runAIGeneration", elsewhere |-> TRUE]
    ELSE last

\* handleCreateTask, the workspaces told apart: the task goes to the active
\* workspace and the round is started from this render.
WorkspaceCreateTask(response) ==
    /\ activeWorkspaceId \in WorkspaceIds
    /\ Len(WorkspaceById(activeWorkspaceId).tasks) < MaxTasks
    /\ Len(rounds) < MaxInFlight
    /\ started < MaxRounds
    /\ started' = started + 1
    /\ workspaces' = MapWorkspace(activeWorkspaceId,
                        [tasks |-> <<NewTask(started + 1, "user")>>
                                        \o WorkspaceById(activeWorkspaceId).tasks])
    /\ rounds' = Append(rounds, WorkspaceRound(activeWorkspaceId, started + 1, FALSE, response))
    /\ host' = [host EXCEPT !.selectedElementInfo = NoSelection]
    /\ toSurface' = PostToSurface(ClearSelection)
    /\ UNCHANGED <<fileSystem, tasks, isAutoPilotOn, last, persistVars, surface, toHost,
                   timerVars, activeWorkspaceId>>

\* The loop of runAIGeneration takes a chunk: the state update maps over the
\* workspaces and changes the one whose id is the call's activeWorkspaceId.
WorkspaceStreamChunk(slot, n) ==
    /\ slot \in DOMAIN rounds
    /\ rounds[slot].stream # <<>>
    /\ LET r == rounds[slot]
           size == IF n < Len(r.stream) THEN n ELSE Len(r.stream)
           f == FrameChunk(r.fullResponseText, SubSeq(r.stream, 1, size))
       IN  /\ rounds' = [rounds EXCEPT ![slot] =
                            [r EXCEPT !.stream = SubSeq(r.stream, size + 1, Len(r.stream)),
                                      !.fullResponseText = f.fullResponseText,
                                      !.conversationalPart = f.conversationalPart]]
           /\ workspaces' =
                [i \in DOMAIN workspaces |->
                    IF workspaces[i].id # r.activeWorkspaceId THEN workspaces[i]
                    ELSE [workspaces[i] EXCEPT !.tasks =
                            MapTaskIn(@, r.task, [assistantResponse |->
                                                    ChunkResponse(f.conversationalPart)])]]
    /\ last' = RoundEvent(rounds[slot])
    /\ UNCHANGED <<fileSystem, tasks, isAutoPilotOn, started, persistVars, pickerVars,
                   timerVars, activeWorkspaceId>>

\* A faulty final update: the workspace is the one active now.
WorkspaceStreamEndInActive(slot) ==
    /\ slot \in DOMAIN rounds
    /\ rounds[slot].stream = <<>>
    /\ LET r == rounds[slot]
           f == FinalFraming(r.fullResponseText, r.isAutoPilot)
           applies == ~f.threw /\ r.isAutoPilot /\ Len(f.fileOps) > 0
           final(ws) ==
                [ws EXCEPT
                    !.fileSystem = IF applies THEN applyFileOperations(@, f.fileOps) ELSE @,
                    !.tasks = IF f.threw
                              THEN MapTaskIn(@, r.task, [status |-> "error", error |-> f.error])
                              ELSE MapTaskIn(@, r.task,
                                        [status |-> f.status,
                                         assistantResponse |->
                                            FinalResponse(f.finalConversationalPart,
                                                          f.fileOps, f.blueprint)])]
       IN  /\ workspaces' =
                [i \in DOMAIN workspaces |->
                    IF workspaces[i].id # activeWorkspaceId THEN workspaces[i]
                    ELSE final(workspaces[i])]
           /\ \A i \in DOMAIN workspaces : WithinBound(workspaces'[i].fileSystem)
    /\ rounds' = RemoveAt(rounds, slot)
    /\ last' = RoundEvent(rounds[slot])
    /\ UNCHANGED <<fileSystem, tasks, isAutoPilotOn, started, persistVars, pickerVars,
                   timerVars, activeWorkspaceId>>

\* The stream has ended: the final framing and the final update, or the
\* catch, on the workspace whose id is the call's activeWorkspaceId.
WorkspaceStreamEnd(slot) ==
    /\ slot \in DOMAIN rounds
    /\ rounds[slot].stream = <<>>
    /\ LET r == rounds[slot]
           f == FinalFraming(r.fullResponseText, r.isAutoPilot)
           applies == ~f.threw /\ r.isAutoPilot /\ Len(f.fileOps) > 0
           final(ws) ==
                [ws EXCEPT
                    !.fileSystem = IF applies THEN applyFileOperations(@, f.fileOps) ELSE @,
                    !.tasks = IF f.threw
                              THEN MapTaskIn(@, r.task, [status |-> "error", error |-> f.error])
                              ELSE MapTaskIn(@, r.task,
                                        [status |-> f.status,
                                         assistantResponse |->
                                            FinalResponse(f.finalConversationalPart,
                                                          f.fileOps, f.blueprint)])]
       IN  /\ workspaces' =
                [i \in DOMAIN workspaces |->
                    IF workspaces[i].id # r.activeWorkspaceId THEN workspaces[i]
                    ELSE final(workspaces[i])]
           /\ \A i \in DOMAIN workspaces : WithinBound(workspaces'[i].fileSystem)
    /\ rounds' = RemoveAt(rounds, slot)
    /\ last' = RoundEvent(rounds[slot])
    /\ UNCHANGED <<fileSystem, tasks, isAutoPilotOn, started, persistVars, pickerVars,
                   timerVars, activeWorkspaceId>>

\* The text source fails: the catch, on the workspace whose id is the call's
\* activeWorkspaceId.
WorkspaceStreamFail(slot) ==
    /\ slot \in DOMAIN rounds
    /\ workspaces' =
            [i \in DOMAIN workspaces |->
                IF workspaces[i].id # rounds[slot].activeWorkspaceId THEN workspaces[i]
                ELSE [workspaces[i] EXCEPT !.tasks =
                        MapTaskIn(@, rounds[slot].task,
                                  [status |-> "error", error |-> "<source error>"])]]
    /\ rounds' = RemoveAt(rounds, slot)
    /\ last' = RoundEvent(rounds[slot])
    /\ UNCHANGED <<fileSystem, tasks, isAutoPilotOn, started, persistVars, pickerVars,
                   timerVars, activeWorkspaceId>>

\* handleApproveTask, the workspaces told apart: the task is looked up in
\* the active workspace and its operations are applied to that one's tree.
WorkspaceApproveTask(taskId) ==
    /\ activeWorkspaceId \in WorkspaceIds
    /\ LET ws == WorkspaceById(activeWorkspaceId)
           found == \E i \in DOMAIN ws.tasks : ws.tasks[i].id = taskId
           task == ws.tasks[CHOOSE i \in DOMAIN ws.tasks : ws.tasks[i].id = taskId]
           applies == /\ found
                      /\ task.status = "pending_confirmation"
                      /\ task.assistantResponse.hasOperations
           newFileSystem == applyFileOperations(ws.fileSystem, task.assistantResponse.operations)
       IN  /\ applies => WithinBound(newFileSystem)
           /\ workspaces' =
                IF applies
                THEN MapWorkspace(activeWorkspaceId,
                        [fileSystem |-> newFileSystem,
                         tasks |-> MapTaskIn(ws.tasks, taskId, [status |-> "completed"])])
                ELSE workspaces
    /\ UNCHANGED <<fileSystem, tasks, rounds, isAutoPilotOn, last, started, persistVars,
                   pickerVars, timerVars, activeWorkspaceId>>

\* handleSwitchWorkspace
handleSwitchWorkspace(id) ==
    /\ activeWorkspaceId' = id
    /\ UNCHANGED <<workspaces, otherVars0>>

\* crypto.randomUUID(): an id that no workspace and no call in flight has.
randomUUID ==
    CHOOSE id \in 1..(MaxWorkspaces + MaxInFlight + 1) :
        /\ id \notin WorkspaceIds
        /\ \A slot \in DOMAIN rounds : rounds[slot].activeWorkspaceId # id
        /\ \A other \in 1..(id - 1) :
                \/ other \in WorkspaceIds
                \/ \E slot \in DOMAIN rounds : rounds[slot].activeWorkspaceId = other

\* onConfirm of handleCreateWorkspace: the workspace is put after the others
\* and made the active one.
handleCreateWorkspace ==
    /\ Len(workspaces) < MaxWorkspaces
    /\ workspaces' = Append(workspaces, NewWorkspace(randomUUID))
    /\ activeWorkspaceId' = randomUUID
    /\ UNCHANGED otherVars0

\* handleDeleteWorkspace(id), the confirm dialog answered with yes.
handleDeleteWorkspace(id) ==
    /\ Len(workspaces) > 1
    /\ LET newWorkspaces == SelectSeq(workspaces, LAMBDA ws : ws.id # id)
       IN  /\ workspaces' = newWorkspaces
           /\ activeWorkspaceId' =
                IF activeWorkspaceId = id THEN newWorkspaces[1].id ELSE activeWorkspaceId
    /\ UNCHANGED otherVars0

\* ---------------------------------------------------- auto-pilot interval

\* autoPilotRunningTask
autoPilotRunningTask ==
    \E i \in DOMAIN tasks : tasks[i].type = "autopilot" /\ tasks[i].status = "running"

\* The dependencies of the auto-pilot effect: isAutoPilotOn, autoPilotRunningTask
\* (a function of the tasks) and handleAutoPilotTick, which is made anew
\* whenever workspaces is.
Deps == <<isAutoPilotOn, tasks, fileSystem>>

\* Every effect of the last render has run.
EffectsFlushed == interval.seen = Deps

\* The auto-pilot effect after a render in which a dependency changed: the
\* cleanup clears the interval of the render before, and a new one is set
\* unless auto-pilot is off or an autopilot task is running.
AutoPilotEffect ==
    /\ interval.seen # Deps
    /\ interval' = [set |-> isAutoPilotOn /\ ~autoPilotRunningTask,
                    elapsed |-> 0,
                    seen |-> Deps]
    /\ UNCHANGED <<fileSystem, tasks, rounds, isAutoPilotOn, last, started,
                   persistVars, pickerVars, workspaceVars>>

\* Half of the delay goes by while the interval is set.
TimePasses ==
    /\ interval.set
    /\ interval.elapsed < IntervalPeriod
    /\ interval' = [interval EXCEPT !.elapsed = @ + IntervalPeriod \div 2]
    /\ UNCHANGED <<fileSystem, tasks, rounds, isAutoPilotOn, last, started,
                   persistVars, pickerVars, workspaceVars>>

\* The delay is over: the interval calls handleAutoPilotTick.
IntervalFires(response) ==
    /\ interval.set
    /\ interval.elapsed >= IntervalPeriod
    /\ handleAutoPilotTick(response)

\* ------------------------------------------------------------ persistence

\* The effect on [workspaces]: localStorage.setItem of the workspaces, run
\* after a render in which workspaces changed.
SaveWorkspacesEffect ==
    /\ mounted
    /\ storage.workspaces # SavedWorkspaces(fileSystem, tasks)
    /\ storage' = [storage EXCEPT !.workspaces = SavedWorkspaces(fileSystem, tasks)]
    /\ UNCHANGED <<fileSystem, tasks, rounds, isAutoPilotOn, last, started, mounted,
                   pickerVars, timerVars, workspaceVars>>

\* The same effect when setItem throws (the quota is exceeded): nothing
\* catches the error in the effect, and React unmounts the component tree.
SaveWorkspacesThrows ==
    /\ mounted
    /\ storage.workspaces # SavedWorkspaces(fileSystem, tasks)
    /\ mounted' = FALSE
    /\ UNCHANGED <<fileSystem, tasks, rounds, isAutoPilotOn, last, started, storage,
                   pickerVars, timerVars, workspaceVars>>

\* The effect on [workspaceUiStates]: localStorage.setItem of the UI states.
SaveUiStatesEffect ==
    /\ mounted
    /\ storage.uiStates # SavedUiStates(isAutoPilotOn)
    /\ storage' = [storage EXCEPT !.uiStates = SavedUiStates(isAutoPilotOn)]
    /\ UNCHANGED <<fileSystem, tasks, rounds, isAutoPilotOn, last, started, mounted,
                   pickerVars, timerVars, workspaceVars>>

\* The page is loaded again and the mount effect runs: the calls in flight
\* are gone with the old page, and the workspaces are those found under the
\* key, or the default workspace when nothing is found or what is found does
\* not load (damaged), in which case the key is removed.
Reload(damaged) ==
    /\ LET found == IF damaged /\ storage.workspaces.state = "saved"
                    THEN CorruptWorkspaces ELSE storage.workspaces
       IN  IF found.state = "saved"
           THEN /\ fileSystem' = found.fileSystem
                /\ tasks' = found.tasks
                /\ isAutoPilotOn' = (storage.uiStates.state = "saved"
                                        /\ storage.uiStates.isAutoPilotOn)
                /\ storage' = storage
           ELSE /\ fileSystem' = INITIAL_FILES
                /\ tasks' = <<>>
                /\ isAutoPilotOn' = FALSE
                /\ storage' = [storage EXCEPT !.workspaces = NoWorkspaces]
    /\ rounds' = <<>>
    /\ mounted' = TRUE
    /\ surface' = InitialSurface
    /\ host' = InitialHost
    /\ toSurface' = <<>>
    /\ toHost' = <<>>
    /\ interval' = NoInterval
    /\ UNCHANGED <<last, started, workspaceVars>>

\* ------------------------------------------------------------- task panel

\* AITaskItem renders the blueprint, with the button that calls
\* onApproveBlueprint, for a task that carries a blueprint and is
\* pending_blueprint_approval.
ShowsBlueprintApproval(taskId) ==
    /\ TaskById(taskId).assistantResponse.blueprint.type # "undefined"
    /\ TaskById(taskId).status = "pending_blueprint_approval"

\* AITaskItem renders the operation preview, with the buttons that call
\* onApprove and onReject, for a task whose response carries operations.
ShowsOperationPreview(taskId) ==
    /\ TaskById(taskId).assistantResponse.hasOperations
    /\ Len(TaskById(taskId).assistantResponse.operations) > 0

\* getPreviewStatus of AITaskItem, for the task: the status handed to the
\* operation preview.
getPreviewStatus(task) ==
    IF task.status = "running" THEN "processing"
    ELSE IF task.status = "pending_confirmation" THEN "pending"
    ELSE "confirmed"

\* ------------------------------------------------------------------ inputs

\* The elements of an array, a comma between each two.
RECURSIVE Elements(_)
Elements(literals) ==
    IF literals = <<>> THEN <<>>
    ELSE IF Len(literals) = 1 THEN literals
    ELSE <<Head(literals), ",">> \o Elements(Tail(literals))

OperationsPayload(literals) ==
    <<"{", "\"operations\":", "[">> \o Elements(literals) \o <<"]", "}">>

BlueprintPayload == <<"{", "\"name\":", "\"str\"", "}">>

\* The responses of the text source in Spec: plain text, an operations
\* payload, a blueprint, and a payload that does not parse.
Responses ==
    {<<"hello">>,
     <<"hello", " ">> \o opsSeparator \o <<" ">>
        \o OperationsPayload(<<"{CREATE_FILE src/x.tsx hi}">>),
     <<"plan">> \o blueprintSeparator \o BlueprintPayload,
     opsSeparator \o <<"{">>}

\* The batches the file explorer sends in Spec.
DirectBatches == {<<Op("CREATE_FOLDER", <<"x.tsx">>)>>}

\* ---------------------------------------------------------- specifications

InitFS ==
    /\ fileSystem = INITIAL_FILES
    /\ tasks = <<>>
    /\ rounds = <<>>
    /\ isAutoPilotOn = FALSE
    /\ last = NoEvent
    /\ started = 0
    /\ FirstStart
    /\ TimerIdle
    /\ PickerIdle
    /\ OneWorkspace

\* The file explorer's requests: one operation per call.
NextFS == \E op \in Operations : handleDirectFileOperations(<<op>>)

SpecFS == InitFS /\ [][NextFS]_vars

\* An upload or a payload: several operations per call.
NextBatch == \E batch \in SeqsUpTo(BatchOperations, MaxBatch) : handleDirectFileOperations(batch)

SpecBatch == InitFS /\ [][NextBatch]_vars

\* The task lifecycle of one workspace.
NextNames == \E op \in NameOperations : handleDirectFileOperations(<<op>>)

SpecNames == InitFS /\ [][NextNames]_vars

\* Batches that create, delete and rename below the folder the tree starts
\* with, each applied to a clone of the tree in the store.
CloneOperations ==
    {FileOp("CREATE_FILE", <<"src", "x.tsx">>, "hi"),
     Op("CREATE_FOLDER", <<"x.tsx">>),
     Op("DELETE_FILE", <<"src", "App.tsx">>),
     RenameOp("RENAME_FOLDER", <<"src">>, <<"", "">>)}

NextClone ==
    \E batch \in SeqsUpTo(CloneOperations, MaxBatch) : handleDirectFileOperations(batch)

SpecClone == InitFS /\ [][NextClone]_vars

Init == InitFS

Next ==
    \/ \E response \in Responses : handleCreateTask(response)
    \/ \E response \in Responses : handleAutoPilotTick(response)
    \/ onToggleAutoPilot
    \/ \E taskId \in TaskIds, response \in Responses :
            ShowsBlueprintApproval(taskId) /\ handleApproveBlueprint(taskId, response)
    \/ \E taskId \in TaskIds : ShowsOperationPreview(taskId) /\ handleApproveTask(taskId)
    \/ \E taskId \in TaskIds : ShowsOperationPreview(taskId) /\ handleRejectTask(taskId)
    \/ \E batch \in DirectBatches : handleDirectFileOperations(batch)
    \/ \E slot \in DOMAIN rounds : StreamChunk(slot, MaxChunk)
    \/ \E slot \in DOMAIN rounds : StreamEnd(slot)
    \/ \E slot \in DOMAIN rounds : StreamFail(slot)

Spec == Init /\ [][Next]_vars

\* The stream framer: one user task whose round receives a response put
\* together from pieces, in chunks of every size up to MaxChunk tokens.
FramerPieces ==
    {<<"hello", " ">>, <<"hello">>, <<" ", "{", "}">>, opsSeparator, blueprintSeparator,
     <<"---">>, <<"---", "JSON_">>}

RECURSIVE Concat(_)
Concat(pieces) == IF pieces = <<>> THEN <<>> ELSE Head(pieces) \o Concat(Tail(pieces))

FramerTexts == {Concat(pieces) : pieces \in SeqsUpTo(FramerPieces, MaxPieces)}

\* The state handleCreateTask leaves, the stream about to deliver response.
InitFramer ==
    /\ fileSystem = INITIAL_FILES
    /\ \E response \in FramerTexts :
            /\ tasks = <<NewTask(1, "user")>>
            /\ rounds = <<NewRound(1, FALSE, response)>>
    /\ isAutoPilotOn = FALSE
    /\ last = NoEvent
    /\ started = 1
    /\ FirstStart
    /\ TimerIdle
    /\ PickerIdle
    /\ OneWorkspace

NextFramer ==
    \/ \E n \in 1..MaxChunk : StreamChunk(1, n)
    \/ StreamEnd(1)
    \/ StreamFail(1)

SpecFramer == InitFramer /\ [][NextFramer]_vars

\* The payload decoder: two user tasks whose rounds receive the same JSON
\* text after the same separator, task 1 bare within optional whitespace and
\* task 2 inside a fenced code block.
JsonTexts ==
    {OperationsPayload(literals) : literals \in SeqsUpTo(DOMAIN OperationLiterals, MaxBatch)}
        \cup {BlueprintPayload,
              <<"{", "}">>,
              <<"[", "]">>,
              <<"null">>,
              <<"\"str\"">>,
              <<"{", "\"operations\":", "null", "}">>,
              <<"{", "\"operations\":", " ", "[", "\n", "]", "}">>,
              <<"{", "\"name\":", "\"str\"", ",", "\"operations\":", "[", "]", "}">>}

\* Texts JSON.parse rejects.
BrokenTexts == {<<"{">>, <<"[", ",", "]">>, <<"{", "}", "}">>}

Separators == {blueprintSeparator, opsSeparator}

OptionalWhitespace == {<<>>, <<" ">>, <<"\n">>}

\* J in a fenced code block: the fence, the optional tag, J between optional
\* whitespace, the fence.
Fenced(tag, inner, J) == <<"<fence>">> \o tag \o inner \o J \o inner \o <<"<fence>">>

InitDecoder ==
    /\ fileSystem = INITIAL_FILES
    /\ \E J \in JsonTexts \cup BrokenTexts, separator \in Separators,
          outer \in OptionalWhitespace, inner \in OptionalWhitespace,
          tag \in {<<>>, <<"json">>} :
            /\ tasks = <<NewTask(2, "user"), NewTask(1, "user")>>
            /\ rounds = <<NewRound(1, FALSE, separator \o outer \o J \o outer),
                          NewRound(2, FALSE, separator \o outer \o Fenced(tag, inner, J)
                                                \o outer)>>
    /\ isAutoPilotOn = FALSE
    /\ last = NoEvent
    /\ started = 2
    /\ FirstStart
    /\ TimerIdle
    /\ PickerIdle
    /\ OneWorkspace

NextDecoder ==
    \/ \E slot \in DOMAIN rounds : StreamChunk(slot, MaxChunk)
    \/ \E slot \in DOMAIN rounds : StreamEnd(slot)

SpecDecoder == InitDecoder /\ [][NextDecoder]_vars

\* One round to its end: a task handleCreateTask or handleAutoPilotTick has
\* just created, next to an earlier task that completed with the response
\* hello, and the round's stream delivering any of the responses below.
RoundPrefixes == {<<>>, <<"hello", " ">>}

RoundTails ==
    LET create == OperationsPayload(<<"{CREATE_FILE src/x.tsx hi}">>)
        delete == OperationsPayload(<<"{DELETE_FILE src/App.tsx}">>)
    IN  {<<>>,
         <<"hello">>,
         <<"---", "JSON_">>,
         opsSeparator \o <<" ">> \o create,
         opsSeparator \o <<"\n", "<fence>", "json", "\n">> \o delete \o <<"\n", "<fence>">>,
         opsSeparator \o OperationsPayload(<<>>),
         opsSeparator \o <<"{">>,
         opsSeparator \o <<"null">>,
         opsSeparator,
         blueprintSeparator \o <<" ">> \o BlueprintPayload,
         blueprintSeparator \o <<"null">>,
         blueprintSeparator \o <<"{">>,
         blueprintSeparator,
         opsSeparator \o create \o blueprintSeparator \o BlueprintPayload,
         blueprintSeparator \o BlueprintPayload \o opsSeparator \o create}

RoundResponses == {prefix \o tail : prefix \in RoundPrefixes, tail \in RoundTails}

\* The task of an earlier round that ended with the plain response hello.
EarlierTask ==
    [NewTask(1, "user") EXCEPT !.status = "completed",
                               !.assistantResponse = FinalResponse(<<"hello">>, <<>>, JUndefined)]

InitRound ==
    /\ fileSystem = INITIAL_FILES
    /\ \E response \in RoundResponses, isAutoPilot \in BOOLEAN :
            /\ tasks = <<NewTask(2, IF isAutoPilot THEN "autopilot" ELSE "user"), EarlierTask>>
            /\ rounds = <<NewRound(2, isAutoPilot, response)>>
    /\ isAutoPilotOn \in BOOLEAN
    /\ last = NoEvent
    /\ started = 2
    /\ FirstStart
    /\ TimerIdle
    /\ PickerIdle
    /\ OneWorkspace

NextRound ==
    \/ \E n \in 1..MaxChunk : StreamChunk(1, n)
    \/ StreamEnd(1)
    \/ StreamFail(1)

SpecRound == InitRound /\ [][NextRound]_vars

\* Rounds with operations: user tasks and auto-pilot ticks whose streams run
\* to their end, direct file operations, and the approve and reject buttons.
NextOperations ==
    \/ \E response \in Responses : handleCreateTask(response)
    \/ \E response \in Responses : handleAutoPilotTick(response)
    \/ onToggleAutoPilot
    \/ \E taskId \in TaskIds : ShowsOperationPreview(taskId) /\ handleApproveTask(taskId)
    \/ \E taskId \in TaskIds : ShowsOperationPreview(taskId) /\ handleRejectTask(taskId)
    \/ \E batch \in DirectBatches : handleDirectFileOperations(batch)
    \/ \E slot \in DOMAIN rounds : StreamChunk(slot, MaxChunk)
    \/ \E slot \in DOMAIN rounds : StreamEnd(slot)

SpecOperations == InitFS /\ [][NextOperations]_vars

\* Blueprint approvals: a task waits for the approval of its blueprint while
\* the round of an earlier task is in flight.
BlueprintTask(type) ==
    [NewTask(2, type) EXCEPT !.status = "pending_blueprint_approval",
                             !.assistantResponse =
                                FinalResponse(<<"plan">>, <<>>,
                                              JSONparse(BlueprintPayload).value)]

InitApproval ==
    /\ fileSystem = INITIAL_FILES
    /\ \E type \in {"user", "autopilot"}, response \in Responses :
            /\ tasks = <<BlueprintTask(type), NewTask(1, "user")>>
            /\ rounds = <<NewRound(1, FALSE, response)>>
    /\ isAutoPilotOn = FALSE
    /\ last = NoEvent
    /\ started = 2
    /\ FirstStart
    /\ TimerIdle
    /\ PickerIdle
    /\ OneWorkspace

NextApproval ==
    \/ \E taskId \in TaskIds, response \in Responses :
            ShowsBlueprintApproval(taskId) /\ handleApproveBlueprint(taskId, response)
    \/ \E slot \in DOMAIN rounds : StreamChunk(slot, MaxChunk)
    \/ \E slot \in DOMAIN rounds : StreamEnd(slot)
    \/ \E slot \in DOMAIN rounds : StreamFail(slot)

SpecApproval == InitApproval /\ [][NextApproval]_vars

\* A task waits for the approval of its blueprint, no round in flight, and
\* onApproveBlueprint is called for any task at any moment:
\* handleApproveBlueprint decides by itself what the call does.
InitReapprove ==
    /\ fileSystem = INITIAL_FILES
    /\ \E type \in {"user", "autopilot"} : tasks = <<BlueprintTask(type), EarlierTask>>
    /\ rounds = <<>>
    /\ isAutoPilotOn = FALSE
    /\ last = NoEvent
    /\ started = 1
    /\ FirstStart
    /\ TimerIdle
    /\ PickerIdle
    /\ OneWorkspace

NextReapprove ==
    \/ \E taskId \in TaskIds, response \in Responses : handleApproveBlueprint(taskId, response)
    \/ \E slot \in DOMAIN rounds : StreamChunk(slot, MaxChunk)
    \/ \E slot \in DOMAIN rounds : StreamEnd(slot)
    \/ \E slot \in DOMAIN rounds : StreamFail(slot)

SpecReapprove == InitReapprove /\ [][NextReapprove]_vars

\* Publishes against one workspace: a user task waits for approval with its
\* operations, an auto-pilot round is in flight, and the file explorer and
\* the editor are in use.  Each setWorkspaces(prev => ...) call is one step:
\* the updaters run one after the other, each on the state the one before
\* left.
PendingBatches ==
    {<<FileOp("CREATE_FILE", <<"src", "x.tsx">>, "hi")>>,
     <<RenameOp("RENAME_FILE", <<"src", "App.tsx">>, <<"x.tsx">>)>>}

AutoPilotResponses ==
    {<<"hello", " ">> \o opsSeparator \o OperationsPayload(<<literal>>) :
        literal \in {"{CREATE_FILE src/x.tsx hi}", "{DELETE_FILE src/App.tsx}"}}

PublishBatches ==
    {<<Op("CREATE_FOLDER", <<"x.tsx">>)>>,
     <<Op("DELETE_FILE", <<"src", "x.tsx">>)>>,
     <<RenameOp("RENAME_FOLDER", <<"src">>, <<"lib">>)>>}

EditedPaths == {<<"src", "App.tsx">>, <<"src", "x.tsx">>, <<"src">>}

WaitingTask(operations) ==
    [NewTask(1, "user") EXCEPT !.status = "pending_confirmation",
                               !.assistantResponse = FinalResponse(<<"hello">>, operations,
                                                                   JUndefined)]

InitPublish ==
    /\ fileSystem = INITIAL_FILES
    /\ \E operations \in PendingBatches, response \in AutoPilotResponses :
            /\ tasks = <<NewTask(2, "autopilot"), WaitingTask(operations)>>
            /\ rounds = <<NewRound(2, TRUE, response)>>
    /\ isAutoPilotOn = TRUE
    /\ last = NoEvent
    /\ started = 2
    /\ FirstStart
    /\ TimerIdle
    /\ PickerIdle
    /\ OneWorkspace

NextPublish ==
    \/ \E batch \in PublishBatches : handleDirectFileOperations(batch)
    \/ handleApproveTask(1)
    \/ \E path \in EditedPaths : handleFileContentChange(path, "edit")
    \/ StreamChunk(1, MaxChunk)
    \/ StreamEnd(1)

SpecPublish == InitPublish /\ [][NextPublish]_vars

\* Persistence: tasks are created and their rounds run while the save effects
\* checkpoint the workspaces and the UI states, a save can fail, and the page
\* can be loaded again at any moment.
NextPersist ==
    \/ mounted /\ \E response \in Responses : handleCreateTask(response)
    \/ mounted /\ onToggleAutoPilot
    \/ mounted /\ \E slot \in DOMAIN rounds : StreamChunk(slot, MaxChunk)
    \/ mounted /\ \E slot \in DOMAIN rounds : StreamEnd(slot)
    \/ mounted /\ \E slot \in DOMAIN rounds : StreamFail(slot)
    \/ SaveWorkspacesEffect
    \/ SaveWorkspacesThrows
    \/ SaveUiStatesEffect
    \/ \E damaged \in BOOLEAN : Reload(damaged)

SpecPersist == InitFS /\ [][NextPersist]_vars

\* Auto-pilot is on while the round of a user task streams and the user edits
\* a file.  The effects of a render run before the next event is handled; the
\* browser lets time pass and fires an interval that is due, and the chunks
\* of the stream arrive, however often the user acts; nothing makes the user
\* act, and the interval does not wait for the stream to end.
EditorContents == {"a", "b"}

InitAutoPilot ==
    /\ fileSystem = INITIAL_FILES
    /\ \E response \in AutoPilotResponses :
            /\ tasks = <<NewTask(1, "user")>>
            /\ rounds = <<NewRound(1, FALSE, response)>>
    /\ isAutoPilotOn = TRUE
    /\ last = NoEvent
    /\ started = 1
    /\ FirstStart
    /\ TimerIdle
    /\ PickerIdle
    /\ OneWorkspace

TickAutoPilot == EffectsFlushed /\ \E response \in AutoPilotResponses : IntervalFires(response)

ClockAutoPilot == EffectsFlushed /\ TimePasses

ChunkAutoPilot == EffectsFlushed /\ \E slot \in DOMAIN rounds : StreamChunk(slot, MaxChunk)

EndAutoPilot == EffectsFlushed /\ \E slot \in DOMAIN rounds : StreamEnd(slot)

NextAutoPilot ==
    \/ AutoPilotEffect
    \/ ClockAutoPilot
    \/ TickAutoPilot
    \/ ChunkAutoPilot
    \/ EndAutoPilot
    \/ EffectsFlushed /\ onToggleAutoPilot
    \/ EffectsFlushed /\ \E content \in EditorContents :
            handleFileContentChange(<<"src", "App.tsx">>, content)

SpecAutoPilot ==
    /\ InitAutoPilot
    /\ [][NextAutoPilot]_vars
    /\ WF_vars(AutoPilotEffect)
    /\ SF_vars(ClockAutoPilot)
    /\ SF_vars(TickAutoPilot)
    /\ SF_vars(ChunkAutoPilot)

\* The element picker: the buttons of the host, the mouse over the previewed
\* page, and the two message listeners, each taking the messages in the order
\* they were posted.
NextPicker ==
    \/ toggleElementSelector
    \/ handleRefresh
    \/ handleClearContext
    \/ HostReceive
    \/ SurfaceReceive
    \/ \E target \in PageElements : MouseOver(target)
    \/ MouseOut
    \/ \E target \in PageElements : Click(target)

SpecPicker == InitFS /\ [][NextPicker]_vars

\* The response of every round of the specification of several workspaces.
WorkspaceResponses ==
    {<<"hello", " ">> \o opsSeparator \o OperationsPayload(<<"{CREATE_FILE src/x.tsx hi}">>)}

\* Several workspaces: an auto-pilot round is in flight in the first
\* workspace while the user creates tasks, approves them, creates a workspace
\* and goes from one workspace to another.
InitWorkspaces ==
    /\ fileSystem = INITIAL_FILES
    /\ tasks = <<>>
    /\ \E response \in WorkspaceResponses :
            /\ workspaces = <<[NewWorkspace(1) EXCEPT !.tasks = <<NewTask(1, "autopilot")>>]>>
            /\ rounds = <<WorkspaceRound(1, 1, TRUE, response)>>
    /\ activeWorkspaceId = 1
    /\ isAutoPilotOn = TRUE
    /\ last = NoEvent
    /\ started = 1
    /\ FirstStart
    /\ TimerIdle
    /\ surface = InitialSurface
    /\ host = InitialHost
    /\ toSurface = <<>>
    /\ toHost = <<>>

NextWorkspaces ==
    \/ /\ started < MaxWorkspaces
       /\ \E response \in WorkspaceResponses : WorkspaceCreateTask(response)
    \/ \E slot \in DOMAIN rounds : WorkspaceStreamChunk(slot, MaxChunk)
    \/ \E slot \in DOMAIN rounds : WorkspaceStreamEnd(slot)
    \/ \E slot \in DOMAIN rounds : WorkspaceStreamFail(slot)
    \/ \E taskId \in 1..MaxRounds : WorkspaceApproveTask(taskId)
    \/ \E id \in WorkspaceIds : handleSwitchWorkspace(id)
    \/ handleCreateWorkspace
    \/ handleDeleteWorkspace(activeWorkspaceId)

SpecWorkspaces == InitWorkspaces /\ [][NextWorkspaces]_vars

\* What other windows post to the host.
ForeignData == {ConsoleMessage("error", "foreign"), ElementSelected(getSelector("h1"), <<"Hello">>)}

\* The picker with the tabs: the same, the previewed page being there on the
\* preview tab only, and the user going from one tab to the other.
NextTabs ==
    \/ toggleElementSelector
    \/ handleRefresh
    \/ HostReceive
    \/ host.activeTab = "preview" /\ SurfaceReceive
    \/ host.activeTab = "preview" /\ \E target \in PageElements : MouseOver(target)
    \/ host.activeTab = "preview" /\ MouseOut
    \/ host.activeTab = "preview" /\ \E target \in PageElements : Click(target)
    \/ \E tab \in {"preview", "console"} : onTabChange(tab)

SpecTabs == InitFS /\ [][NextTabs]_vars

\* The picker among other windows: the same, the selection cleared by the
\* user, the previewed page calling console.error, and windows that are not
\* the preview posting console and element-selected messages to the host.
NextSources ==
    \/ NextTabs
    \/ handleClearContext
    \/ /\ host.activeTab = "preview"
       /\ Len(host.received) + Len(toHost) < MaxMessages
       /\ ConsoleCall("error")
    \/ \E source \in OtherSources, data \in ForeignData : ForeignMessage(source, data)

SpecSources == InitFS /\ [][NextSources]_vars

\* The console relay: the previewed page calls the console at any level, the
\* host takes the messages, other windows post messages of their own, and
\* the user changes tabs and refreshes the preview.
NextConsole ==
    \/ \E level \in ConsoleKeys :
            /\ host.activeTab = "preview"
            /\ Len(host.received) + Len(toHost) < MaxLogs
            /\ ConsoleCall(level)
    \/ HostReceive
    \/ \E source \in OtherSources, data \in ForeignData : ForeignMessage(source, data)
    \/ \E tab \in {"preview", "console"} : onTabChange(tab)
    \/ handleRefresh

SpecConsole == InitFS /\ [][NextConsole]_vars

\* The log window: the previewed page logs more often than the window is
\* long, now and then with console.error or console.table, and the user
\* goes back to the preview tab.
Loud(logs) == Cardinality({i \in DOMAIN logs : logs[i].message # "hello"})

NextLogWindow ==
    \/ \E level \in ConsoleKeys :
            /\ host.activeTab = "preview"
            /\ Len(host.received) + Len(toHost) < MaxReceived
            /\ level # "log" => Loud(host.received) + Loud(toHost) < MaxLoud
            /\ ConsoleCall(level)
    \/ HostReceive
    \/ \E tab \in {"preview", "console"} : onTabChange(tab)

SpecLogWindow == InitFS /\ [][NextLogWindow]_vars

\* Approve and reject called for tasks in every status: beside a task that
\* waits for confirmation there is a task that is running (its round in
\* flight), in error, waiting for the approval of its blueprint, or completed
\* after its batch was rejected.
ConfirmTasks ==
    {NewTask(2, "user"),
     [NewTask(2, "user") EXCEPT !.status = "error", !.error = "<source error>"],
     BlueprintTask("user"),
     [WaitingTask(<<FileOp("CREATE_FILE", <<"src", "x.tsx">>, "hi")>>)
        EXCEPT !.id = 2, !.status = "completed"]}

InitConfirm ==
    /\ fileSystem = INITIAL_FILES
    /\ \E task \in ConfirmTasks, operations \in PendingBatches, response \in Responses :
            /\ tasks = <<task, WaitingTask(operations)>>
            /\ rounds = IF task.status = "running"
                        THEN <<NewRound(2, FALSE, response)>> ELSE <<>>
    /\ isAutoPilotOn = FALSE
    /\ last = NoEvent
    /\ started = 2
    /\ FirstStart
    /\ TimerIdle
    /\ PickerIdle
    /\ OneWorkspace

NextConfirm ==
    \/ \E taskId \in TaskIds : handleApproveTask(taskId)
    \/ \E taskId \in TaskIds : handleRejectTask(taskId)
    \/ \E batch \in PublishBatches : handleDirectFileOperations(batch)
    \/ \E slot \in DOMAIN rounds : StreamChunk(slot, MaxChunk)
    \/ \E slot \in DOMAIN rounds : StreamEnd(slot)

SpecConfirm == InitConfirm /\ [][NextConfirm]_vars

\* ------------------------------------------------------ claims: file system

\* The indices of the operations of a batch whose application throws (and is
\* caught and logged), the batch being applied to tree from index i on.
RECURSIVE ThrowingIndices(_, _, _)
ThrowingIndices(tree, operations, i) ==
    IF i > Len(operations) THEN {}
    ELSE LET r == ApplyOperation(tree, operations[i])
         IN  (IF r.threw THEN {i} ELSE {}) \cup ThrowingIndices(r.tree, operations, i + 1)

\* The batch without the operations at the given indices, order kept.
RECURSIVE WithoutIndices(_, _, _)
WithoutIndices(operations, drop, i) ==
    IF i > Len(operations) THEN <<>>
    ELSE (IF i \in drop THEN <<>> ELSE <<operations[i]>>)
             \o WithoutIndices(operations, drop, i + 1)

\* C1: a batch holding exactly one invalid operation (one that throws where it
\* is applied) among valid ones yields the tree that applying only the valid
\* ones, in the same order, yields.
C1_InvalidOperationIsSkipped ==
    LET invalid == ThrowingIndices(last.before, last.ops, 1)
    IN  (last.handler = "handleDirectFileOperations" /\ Cardinality(invalid) = 1)
            => fileSystem = applyFileOperations(last.before,
                                                WithoutIndices(last.ops, invalid, 1))

\* C2: a single operation that fails (throws) leaves the tree exactly as it
\* was before the operation; a failed rename leaves its source in place.
C2_FailedOperationHasNoEffect ==
    (/\ last.handler = "handleDirectFileOperations"
     /\ Len(last.ops) = 1
     /\ ApplyOperation(last.before, last.ops[1]).threw)
        => fileSystem = last.before

\* -------------------------------------------------- claims: task lifecycle

\* The task with the id in a list of tasks.
TaskIn(ts, taskId) == ts[CHOOSE i \in DOMAIN ts : ts[i].id = taskId]

\* The round in the slot is of a task of the type, received all its stream,
\* and its buffer holds the operations separator with a payload that decodes.
EndsWithOperations(slot, type) ==
    /\ TaskById(rounds[slot].task).type = type
    /\ rounds[slot].stream = <<>>
    /\ PendingKind(rounds[slot].fullResponseText) = "operations"
    /\ ~FinalFraming(rounds[slot].fullResponseText, rounds[slot].isAutoPilot).threw

\* C3: when the stream of a round handleCreateTask started ends with the
\* operations separator, the task becomes pending_confirmation and the tree
\* is unchanged; and in every step, the tree changes only by a direct file
\* operation, by the approval of a task that is pending_confirmation, or by
\* the end of an auto-pilot round: never by the batch of a user round
\* without an approval.
C3_UserOperationsAwaitApproval ==
    [][/\ \A slot \in DOMAIN rounds :
            (EndsWithOperations(slot, "user") /\ StreamEnd(slot))
                => /\ TaskIn(tasks', rounds[slot].task).status = "pending_confirmation"
                   /\ fileSystem' = fileSystem
       /\ fileSystem' # fileSystem
            => \/ \E batch \in DirectBatches : handleDirectFileOperations(batch)
               \/ \E taskId \in TaskIds :
                    /\ TaskById(taskId).status = "pending_confirmation"
                    /\ handleApproveTask(taskId)
               \/ \E slot \in DOMAIN rounds : rounds[slot].isAutoPilot /\ StreamEnd(slot)
      ]_vars

\* A user task waits for its confirmation with the operations of its payload,
\* nothing of them in the tree.
C3_Witness ==
    /\ rounds = <<>>
    /\ fileSystem = INITIAL_FILES
    /\ \E i \in DOMAIN tasks :
            /\ tasks[i].type = "user"
            /\ tasks[i].status = "pending_confirmation"
            /\ tasks[i].assistantResponse.operations
                    = <<FileOp("CREATE_FILE", <<"src", "x.tsx">>, "hi")>>

\* C4: for a task that is pending_confirmation with a batch, reject leaves
\* the tree unchanged and completes the task; approve completes the task and
\* makes the tree applyFileOperations(the tree as it is, the batch); with the
\* batch CREATE_FILE src/x.tsx hi, src/x.tsx is then a file with content hi.
C4_ApproveAppliesRejectDiscards ==
    [][\A taskId \in TaskIds :
            LET task == TaskById(taskId)
                batch == task.assistantResponse.operations
            IN  (task.status = "pending_confirmation" /\ task.assistantResponse.hasOperations)
                    => /\ handleRejectTask(taskId)
                            => /\ fileSystem' = fileSystem
                               /\ TaskIn(tasks', taskId).status = "completed"
                       /\ handleApproveTask(taskId)
                            => /\ TaskIn(tasks', taskId).status = "completed"
                               /\ fileSystem' = applyFileOperations(fileSystem, batch)
                               /\ batch = <<FileOp("CREATE_FILE", <<"src", "x.tsx">>, "hi")>>
                                    => /\ <<"src", "x.tsx">> \in DOMAIN fileSystem'
                                       /\ fileSystem'[<<"src", "x.tsx">>] = FileNode("hi")
      ]_vars

\* The only tasks are user tasks, one of them completed with the batch
\* CREATE_FILE src/x.tsx hi, and the tree holds the file: the batch was
\* approved.
C4_Witness ==
    /\ \A i \in DOMAIN tasks : tasks[i].type = "user"
    /\ \E i \in DOMAIN tasks :
            /\ tasks[i].status = "completed"
            /\ tasks[i].assistantResponse.operations
                    = <<FileOp("CREATE_FILE", <<"src", "x.tsx">>, "hi")>>
    /\ <<"src", "x.tsx">> \in DOMAIN fileSystem
    /\ fileSystem[<<"src", "x.tsx">>] = FileNode("hi")

\* C5: in every reachable state at most one task of type autopilot is
\* running.
C5_AutopilotSingleFlight ==
    Cardinality({i \in DOMAIN tasks :
                    tasks[i].type = "autopilot" /\ tasks[i].status = "running"}) <= 1

\* C6: when a round of a task of type autopilot ends with the operations
\* separator and a payload that decodes, the operations are applied to the
\* tree in that step and the task becomes completed, a round started by the
\* approval of the task's blueprint included.
C6_AutopilotOperationsApplied ==
    [][\A slot \in DOMAIN rounds :
            (EndsWithOperations(slot, "autopilot") /\ StreamEnd(slot))
                => LET f == FinalFraming(rounds[slot].fullResponseText, rounds[slot].isAutoPilot)
                   IN  /\ TaskIn(tasks', rounds[slot].task).status = "completed"
                       /\ fileSystem' = applyFileOperations(fileSystem, f.fileOps)
      ]_vars

\* ---------------------------------------------------- claims: stream framer

\* sep occurs in text at the 0-based index i.
Occurs(text, sep, i) ==
    /\ i + Len(sep) <= Len(text)
    /\ \A k \in 1..Len(sep) : text[i + k] = sep[k]

Contains(text, sep) == \E i \in 0..Len(text) : Occurs(text, sep, i)

\* Everything before the first occurrence of sep in a text that contains it.
BeforeFirst(text, sep) ==
    LET first == CHOOSE i \in 0..Len(text) :
                    Occurs(text, sep, i) /\ \A j \in 0..(i - 1) : ~Occurs(text, sep, j)
    IN  [k \in 1..first |-> text[k]]

\* C7: for a fixed response, after the last chunk the conversational part and
\* the pending payload kind are those of the response delivered as a single
\* chunk, however the response was split into chunks.
C7_SplitInvariance ==
    \A slot \in DOMAIN rounds :
        rounds[slot].stream = <<>>
            => /\ rounds[slot].conversationalPart
                    = FrameChunk(<<>>, rounds[slot].response).conversationalPart
               /\ PendingKind(rounds[slot].fullResponseText)
                    = PendingKind(rounds[slot].response)

\* The response hello, space, operations separator, payload has arrived, in
\* two chunks or more as it is longer than a chunk, and the conversational
\* part is hello and the space.
C7_Witness ==
    \E slot \in DOMAIN rounds :
        /\ rounds[slot].response = <<"hello", " ">> \o opsSeparator \o <<" ", "{", "}">>
        /\ Len(rounds[slot].response) > MaxChunk
        /\ rounds[slot].stream = <<>>
        /\ rounds[slot].conversationalPart = <<"hello", " ">>

\* C8: of an accumulated buffer, if the blueprint separator occurs the kind is
\* blueprint and the conversational part is everything before its first
\* occurrence, an earlier operations separator notwithstanding; otherwise if
\* the operations separator occurs the kind is operations and the
\* conversational part everything before it; otherwise the whole buffer is
\* conversational and no kind is pending.  The final framing decides the
\* same way.
C8_FramerClassification ==
    \A slot \in DOMAIN rounds :
        LET r == rounds[slot]
            buffer == r.fullResponseText
            f == FinalFraming(buffer, r.isAutoPilot)
        IN  /\ Contains(buffer, blueprintSeparator)
                => /\ PendingKind(buffer) = "blueprint"
                   /\ r.conversationalPart = BeforeFirst(buffer, blueprintSeparator)
                   /\ \/ f.status = "pending_blueprint_approval"
                      \/ f.error = "Failed to parse blueprint from AI."
            /\ (~Contains(buffer, blueprintSeparator) /\ Contains(buffer, opsSeparator))
                => /\ PendingKind(buffer) = "operations"
                   /\ r.conversationalPart = BeforeFirst(buffer, opsSeparator)
                   /\ \/ f.status = "pending_confirmation" /\ ~r.isAutoPilot
                      \/ f.status = "completed" /\ r.isAutoPilot
                      \/ f.error = "Failed to parse file operations from AI."
            /\ (~Contains(buffer, blueprintSeparator) /\ ~Contains(buffer, opsSeparator))
                => /\ PendingKind(buffer) = "none"
                   /\ r.conversationalPart = buffer
                   /\ ~f.threw /\ f.status = "completed"
                   /\ f.finalConversationalPart = buffer

\* A buffer where the operations separator comes before the blueprint
\* separator, cut at the blueprint separator.
C8_Witness ==
    \E slot \in DOMAIN rounds :
        /\ rounds[slot].fullResponseText
                = <<"hello", " ">> \o opsSeparator \o blueprintSeparator
        /\ rounds[slot].conversationalPart = <<"hello", " ">> \o opsSeparator

\* C9, as the specification states it: once the buffer has a pending payload
\* kind at some chunk, the kind is the same at every later chunk.
C9_KindNeverChanges ==
    [][(/\ Len(rounds) = 1
        /\ Len(rounds') = 1
        /\ PendingKind(rounds[1].fullResponseText) # "none")
            => PendingKind(rounds'[1].fullResponseText) = PendingKind(rounds[1].fullResponseText)
      ]_vars

\* C9, as the code has it: a kind, once pending, never returns to none; the
\* kind blueprint stays; the kind operations stays or becomes blueprint, when
\* a blueprint separator arrives after the operations separator; and the
\* stream's completion decides by the kind the last chunk left.
C9_KindOnlyAdvances ==
    [][/\ (Len(rounds) = 1 /\ Len(rounds') = 1)
            => LET kind == PendingKind(rounds[1].fullResponseText)
                   next == PendingKind(rounds'[1].fullResponseText)
               IN  /\ kind = "blueprint" => next = "blueprint"
                   /\ kind = "operations" => next \in {"operations", "blueprint"}
       /\ (Len(rounds) = 1 /\ StreamEnd(1))
            => LET kind == PendingKind(rounds[1].fullResponseText)
                   task == TaskIn(tasks', rounds[1].task)
               IN  /\ kind = "blueprint"
                        => \/ task.status = "pending_blueprint_approval"
                           \/ task.error = "Failed to parse blueprint from AI."
                   /\ kind = "operations"
                        => \/ task.status = "pending_confirmation"
                           \/ task.error = "Failed to parse file operations from AI."
                   /\ kind = "none" => task.status = "completed"
      ]_vars

\* The kind is blueprint in a buffer whose chunks go on after the blueprint
\* separator, an operations separator before it.
C9_Witness ==
    /\ Len(rounds) = 1
    /\ PendingKind(rounds[1].fullResponseText) = "blueprint"
    /\ Contains(BeforeFirst(rounds[1].fullResponseText, blueprintSeparator), opsSeparator)
    /\ Len(rounds[1].fullResponseText)
            > Len(BeforeFirst(rounds[1].fullResponseText, blueprintSeparator))
                + Len(blueprintSeparator)

\* --------------------------------------------------- claims: payload decoder

\* C10: a JSON text inside a fenced code block (the fence, an optional json
\* tag, optional whitespace around the text and around the block) decodes to
\* what the bare text within optional whitespace decodes to: the two tasks
\* end with the same status, error, operations and blueprint.
C10_FencedDecodesAsBare ==
    rounds = <<>>
        => LET bare == TaskById(1)
               fenced == TaskById(2)
           IN  /\ fenced.status = bare.status
               /\ fenced.error = bare.error
               /\ fenced.assistantResponse = bare.assistantResponse

\* Both tasks ended with the two operations of the fenced payload.
C10_Witness ==
    /\ rounds = <<>>
    /\ tasks[1].id = 2
    /\ tasks[1].status = "pending_confirmation"
    /\ tasks[1].assistantResponse.operations
            = <<FileOp("CREATE_FILE", <<"src", "x.tsx">>, "hi"),
                Op("DELETE_FILE", <<"src", "App.tsx">>)>>

\* ------------------------------------------------- claims: round completion

\* The raw text after the separator the final framing cuts the buffer at.
PayloadOf(buffer) ==
    LET separator == IF Contains(buffer, blueprintSeparator) THEN blueprintSeparator
                     ELSE opsSeparator
        from == Len(BeforeFirst(buffer, separator)) + Len(separator)
    IN  [k \in 1..(Len(buffer) - from) |-> buffer[from + k]]

\* The buffer holds a separator and the payload after it does not decode: it
\* is no JSON text, or it is null where the operations are read.
Undecodable(buffer) ==
    /\ Contains(buffer, blueprintSeparator) \/ Contains(buffer, opsSeparator)
    /\ LET parsed == JSONparse(ExtractJsonString(PayloadOf(buffer)))
       IN  \/ ~parsed.ok
           \/ ~Contains(buffer, blueprintSeparator) /\ parsed.value.type = "null"

\* C11: when the payload does not decode at the stream's completion, the task
\* becomes error with a failure reason that is not empty, and the tree is the
\* tree before the round ended, in user and in auto-pilot rounds.
C11_DecodingFailureIsError ==
    [][(/\ Len(rounds) = 1
        /\ Undecodable(rounds[1].fullResponseText)
        /\ StreamEnd(1))
            => LET task == TaskIn(tasks', rounds[1].task)
               IN  /\ task.status = "error"
                   /\ task.error # ""
                   /\ fileSystem' = fileSystem
      ]_vars

\* An auto-pilot round ended on an operations payload that is no JSON text.
C11_Witness ==
    /\ rounds = <<>>
    /\ \E i \in DOMAIN tasks :
            /\ tasks[i].type = "autopilot"
            /\ tasks[i].status = "error"
            /\ tasks[i].error = "Failed to parse file operations from AI."
    /\ fileSystem = INITIAL_FILES

\* C12: when a round ends with the blueprint separator in the buffer and a
\* payload after it that decodes, the task becomes pending_blueprint_approval
\* and the tree is not changed by the round's end, whatever the task's origin
\* and even with an operations separator and payload in the response too.
C12_BlueprintLeavesTreeAlone ==
    [][(/\ Len(rounds) = 1
        /\ Contains(rounds[1].fullResponseText, blueprintSeparator)
        /\ ~Undecodable(rounds[1].fullResponseText)
        /\ StreamEnd(1))
            => /\ TaskIn(tasks', rounds[1].task).status = "pending_blueprint_approval"
               /\ fileSystem' = fileSystem
      ]_vars

\* An auto-pilot task waits for the approval of its blueprint, its response
\* having held an operations separator and payload before the blueprint's.
C12_Witness ==
    /\ rounds = <<>>
    /\ fileSystem = INITIAL_FILES
    /\ \E i \in DOMAIN tasks :
            /\ tasks[i].type = "autopilot"
            /\ tasks[i].status = "pending_blueprint_approval"
            /\ tasks[i].assistantResponse.blueprint.type = "object"
            /\ Contains(tasks[i].assistantResponse.content, opsSeparator)

\* C13: when a round ends and neither separator occurs in the response, the
\* task becomes completed, its content is the whole response text, and the
\* tree is unchanged, in user and in auto-pilot rounds.
C13_PlainResponseCompletes ==
    [][(/\ Len(rounds) = 1
        /\ ~Contains(rounds[1].response, blueprintSeparator)
        /\ ~Contains(rounds[1].response, opsSeparator)
        /\ StreamEnd(1))
            => LET task == TaskIn(tasks', rounds[1].task)
               IN  /\ task.status = "completed"
                   /\ task.assistantResponse.content = rounds[1].response
                   /\ task.error = ""
                   /\ fileSystem' = fileSystem
      ]_vars

\* An auto-pilot round ended on a response that stops inside a separator: the
\* content is all of it, the space and the separator's head included.
C13_Witness ==
    /\ rounds = <<>>
    /\ fileSystem = INITIAL_FILES
    /\ \E i \in DOMAIN tasks :
            /\ tasks[i].type = "autopilot"
            /\ tasks[i].status = "completed"
            /\ tasks[i].assistantResponse.hasOperations
            /\ tasks[i].assistantResponse.content = <<"hello", " ", "---", "JSON_">>

\* ------------------------------------------------ claims: blueprint approval

\* Every task but the one with the id is the same in the next state.
OtherTasksUnchanged(taskId) ==
    /\ Len(tasks') = Len(tasks)
    /\ \A i \in DOMAIN tasks : tasks[i].id # taskId => tasks'[i] = tasks[i]

\* C14: approving a task that is pending_blueprint_approval sets that task,
\* id unchanged, back to running and starts a round of that task id; no task
\* is added and the tree is not changed by the approval; the chunk updates
\* and the final result of a round are written to the task of its id alone.
C14_ApprovalReusesTask ==
    [][/\ \A taskId \in TaskIds, response \in Responses :
            (ShowsBlueprintApproval(taskId) /\ handleApproveBlueprint(taskId, response))
                => /\ OtherTasksUnchanged(taskId)
                   /\ TaskIn(tasks', taskId)
                        = [TaskById(taskId) EXCEPT !.status = "running"]
                   /\ rounds' = Append(rounds, NewRound(taskId, FALSE, response))
                   /\ fileSystem' = fileSystem
       /\ \A slot \in DOMAIN rounds :
            /\ StreamChunk(slot, MaxChunk)
                => /\ OtherTasksUnchanged(rounds[slot].task)
                   /\ TaskIn(tasks', rounds[slot].task).assistantResponse.content
                        = rounds'[slot].conversationalPart
            /\ StreamEnd(slot)
                => /\ OtherTasksUnchanged(rounds[slot].task)
                   /\ TaskIn(tasks', rounds[slot].task).status
                        \in {"completed", "error", "pending_confirmation",
                             "pending_blueprint_approval"}
      ]_vars

\* The round an approval started has delivered its first chunk to the task
\* that carried the blueprint, running again, while the round of the other
\* task is in flight: two tasks as before, two rounds.
C14_Witness ==
    /\ Len(tasks) = 2
    /\ started = 3
    /\ FirstStart
    /\ TimerIdle
    /\ PickerIdle
    /\ OneWorkspace
    /\ tasks[1].id = 2
    /\ tasks[1].status = "running"
    /\ Len(rounds) = 2
    /\ rounds[1].task = 1
    /\ rounds[2].task = 2
    /\ rounds[2].fullResponseText # <<>>
    /\ tasks[1].assistantResponse.content = rounds[2].conversationalPart
    /\ tasks[2].status = "running"

\* C15: the round started by approving a blueprint ends with the task
\* completed, error or pending_confirmation, never pending_blueprint_approval
\* again.  With one task and two rounds started, the second round is the one
\* the approval of the task's blueprint started.
C15_ApprovedRoundLeavesBlueprint ==
    (Len(tasks) = 1 /\ started = 2 /\ rounds = <<>>)
        => tasks[1].status \in {"completed", "error", "pending_confirmation"}

\* ------------------------------------------------- claims: tree well-formed

\* The ways from the object down, each with the object it ends at, followed
\* for depth steps at most.
RECURSIVE WaysFrom(_, _, _, _)
WaysFrom(g, id, path, depth) ==
    {[path |-> path, id |-> id]}
        \cup IF depth = 0 THEN {}
             ELSE UNION {WaysFrom(g, g.objects[id].children[name], Append(path, name),
                                  depth - 1) : name \in DOMAIN g.objects[id].children}

\* Far enough to come by an object twice where the graph has a cycle.
Ways(g) == WaysFrom(g, RootObject, <<>>, 2 * Cardinality(DOMAIN g.objects))

\* The root is a folder; no object is reached by two paths (so none hangs
\* under two parents or under itself); only folders have children; and every
\* name is a single segment of a path, a separator nowhere in it.
WellFormed(g) ==
    /\ g.objects[RootObject].type = "folder"
    /\ \A a, b \in Ways(g) : a.id = b.id => a.path = b.path
    /\ \A a \in Ways(g) :
            /\ g.objects[a.id].type \in {"folder", "file"}
            /\ g.objects[a.id].type = "file" => DOMAIN g.objects[a.id].children = {}
            /\ \A k \in 1..Len(a.path) : a.path[k] # "" /\ a.path[k] # "/"

\* The tree the graph is: each path from the root with the node it ends at.
Unfolded(g) ==
    [q \in {a.path : a \in Ways(g)} |->
        LET object == g.objects[(CHOOSE a \in Ways(g) : a.path = q).id]
        IN  IF object.type = "folder" THEN Folder
            ELSE IF object.type = "function" THEN InheritedValue
            ELSE FileNode(object.content)]

CreatedOnValidPath ==
    /\ Len(last.ops) = 1
    /\ last.ops[1].operation = "CREATE_FILE"
    /\ last.ops[1].content # Undefined
    /\ PathParts(last.ops[1].path) # <<>>
    /\ \A i \in 1..(Len(PathParts(last.ops[1].path)) - 1) :
            LET prefix == SubSeq(PathParts(last.ops[1].path), 1, i)
            IN  prefix \in DOMAIN last.before => last.before[prefix].type = "folder"

\* After the create the path resolves to a file with content c that has
\* nothing below it, and every proper prefix of the path is a folder.
CreatedFileResolves ==
    LET parts == PathParts(last.ops[1].path)
        found == findNodeByPath(last.ops[1].path, fileSystem)
    IN  /\ found.found
        /\ found.node = parts
        /\ NodeAt(fileSystem, parts) = (<<>> :> FileNode(last.ops[1].content))
        /\ \A i \in 0..(Len(parts) - 1) :
                /\ SubSeq(parts, 1, i) \in DOMAIN fileSystem
                /\ fileSystem[SubSeq(parts, 1, i)].type = "folder"

RenameSucceeded ==
    /\ Len(last.ops) = 1
    /\ last.ops[1].operation \in {"RENAME_FILE", "RENAME_FOLDER"}
    /\ last.ops[1].newPath \notin {NoPath, <<"">>}
    /\ PathParts(last.ops[1].path) # <<>>
    /\ findNodeByPath(last.ops[1].path, last.before).found
    /\ PathParts(last.ops[1].newPath) # <<>>
    /\ LET removed == DeleteChild(last.before, PathParts(last.ops[1].path))
           q == PathParts(last.ops[1].newPath)
       IN  \A i \in 1..(Len(q) - 1) :
                SubSeq(q, 1, i) \in DOMAIN removed => removed[SubSeq(q, 1, i)].type = "folder"

\* q resolves to the very object that was at p, and what is at q is deeply
\* equal to what was at p.
RenamedNodeIsAtDestination ==
    LET g == GraphApplyFileOperations(last.before, last.ops)
        p == PathParts(last.ops[1].path)
        q == PathParts(last.ops[1].newPath)
    IN  /\ [path |-> q, id |-> ObjectId(p, 0)] \in Ways(g)
        /\ findNodeByPath(last.ops[1].newPath, fileSystem).found
        /\ NodeAt(fileSystem, q) = NodeAt(last.before, p)

\* p does not resolve to the object that was at p.
RenamedNodeLeftSource ==
    LET g == GraphApplyFileOperations(last.before, last.ops)
        p == PathParts(last.ops[1].path)
    IN  [path |-> p, id |-> ObjectId(p, 0)] \notin Ways(g)

\* C18 as stated: after a successful rename from p to q, q resolves to a node
\* deeply equal to the node that was at p, and p no longer resolves to it.
C18_RenameRelocatesAlways ==
    RenameSucceeded => RenamedNodeIsAtDestination /\ RenamedNodeLeftSource

\* C18, amended: after a successful rename from p to q, q resolves to the node
\* that was at p, deeply equal to what it was; p no longer resolves to it
\* when q is another path than p, and the tree is as before when q is p.
C18_RenameRelocates ==
    RenameSucceeded =>
        /\ RenamedNodeIsAtDestination
        /\ IF PathParts(last.ops[1].newPath) # PathParts(last.ops[1].path)
           THEN RenamedNodeLeftSource
           ELSE fileSystem = last.before

\* The folder src, with the file in it, was renamed to x.tsx: the file is at
\* x.tsx/App.tsx and src is gone.
C18_Witness ==
    /\ RenameSucceeded
    /\ last.ops[1].path = <<"src">>
    /\ last.ops[1].newPath = <<"x.tsx">>
    /\ <<"src", "App.tsx">> \in DOMAIN last.before
    /\ <<"x.tsx", "App.tsx">> \in DOMAIN fileSystem
    /\ <<"src">> \notin DOMAIN fileSystem


\* --------------------------------------------------------- claims: publishes

\* The batch the end of the round publishes: the decoded operations of an
\* auto-pilot round, nothing otherwise.
AutoAppliedBatch(round) ==
    LET f == FinalFraming(round.fullResponseText, round.isAutoPilot)
    IN  IF ~f.threw /\ round.isAutoPilot THEN f.fileOps ELSE <<>>

\* The tree with the content of the file at the path replaced, if a file is
\* there.
Edited(tree, path, content) ==
    IF path \in DOMAIN tree /\ tree[path].type = "file"
    THEN [q \in DOMAIN tree |-> IF q = path THEN FileNode(content) ELSE tree[q]]
    ELSE tree

\* C19: publishes never race.  Every step that changes the tree is a publish
\* (direct operations, an approval, an auto-applied batch, an edit), and the
\* tree it leaves is its batch applied to the tree the publish before it
\* left, whatever the interleaving: so the visible tree is the publishes'
\* batches applied one after the other in publish order, and none is lost.
C19_PublishesDeriveFromLatest ==
    [][ /\ \A batch \in PublishBatches :
                handleDirectFileOperations(batch)
                    => fileSystem' = applyFileOperations(fileSystem, batch)
        /\ handleApproveTask(1)
                => fileSystem' = IF TaskById(1).status = "pending_confirmation"
                                 THEN applyFileOperations(
                                          fileSystem, TaskById(1).assistantResponse.operations)
                                 ELSE fileSystem
        /\ StreamEnd(1)
                => fileSystem' = applyFileOperations(fileSystem, AutoAppliedBatch(rounds[1]))
        /\ \A path \in EditedPaths :
                handleFileContentChange(path, "edit")
                    => fileSystem' = Edited(fileSystem, path, "edit")
        /\ fileSystem' # fileSystem
                => \/ \E batch \in PublishBatches : handleDirectFileOperations(batch)
                   \/ handleApproveTask(1)
                   \/ StreamEnd(1)
                   \/ \E path \in EditedPaths : handleFileContentChange(path, "edit")
      ]_vars

\* All four kinds of publish have acted on one tree and each one's effect is
\* there: the folder x.tsx of the file explorer, the file src/x.tsx of the
\* approved task with the content the editor gave it afterwards, and
\* src/App.tsx deleted by the auto-pilot batch.
C19_Witness ==
    /\ rounds = <<>>
    /\ TaskById(1).status = "completed"
    /\ TaskById(2).status = "completed"
    /\ last.ops = <<Op("CREATE_FOLDER", <<"x.tsx">>)>>
    /\ <<"x.tsx">> \in DOMAIN fileSystem
    /\ <<"src", "x.tsx">> \in DOMAIN fileSystem
    /\ fileSystem[<<"src", "x.tsx">>] = FileNode("edit")
    /\ <<"src", "App.tsx">> \notin DOMAIN fileSystem


\* ----------------------------------------------------- claims: error boundary

\* C20: the task is the error boundary.  When the text source fails, before
\* the first chunk or after some, or the payload does not decode at the end
\* of the stream, the round is over, its task and no other becomes error with
\* a cause that is not empty, keeping its id, origin and the content shown so
\* far; every other task is as it was, and so are the tree and the auto-pilot
\* switch.
C20_TaskIsErrorBoundary ==
    [][(/\ Len(rounds) = 1
        /\ \/ StreamFail(1)
           \/ Undecodable(rounds[1].fullResponseText) /\ StreamEnd(1))
            => /\ rounds' = <<>>
               /\ DOMAIN tasks' = DOMAIN tasks
               /\ \A i \in DOMAIN tasks :
                        IF tasks[i].id = rounds[1].task
                        THEN /\ tasks'[i].status = "error"
                             /\ tasks'[i].error # ""
                             /\ tasks'[i].id = tasks[i].id
                             /\ tasks'[i].type = tasks[i].type
                             /\ tasks'[i].assistantResponse = tasks[i].assistantResponse
                        ELSE tasks'[i] = tasks[i]
               /\ fileSystem' = fileSystem
               /\ isAutoPilotOn' = isAutoPilotOn
      ]_vars

\* The source failed after a chunk had been shown: the round's task is error
\* with the source's message and the text of the chunk, the earlier task is
\* completed as before.
C20_Witness ==
    /\ rounds = <<>>
    /\ Len(tasks) = 2
    /\ tasks[1].status = "error"
    /\ tasks[1].error = "<source error>"
    /\ tasks[1].assistantResponse.present
    /\ tasks[1].assistantResponse.content # <<>>
    /\ tasks[2] = EarlierTask
    /\ fileSystem = INITIAL_FILES


\* ------------------------------------------------- claims: input left alone

\* C21: applyFileOperations has no side effect on its input.  After the call
\* every object of the tree that was passed in is what it was, batches with
\* failing operations and operations that make parent folders included, and
\* the tree returned (the one published) is the clone with the changes.
C21_InputTreeUntouched ==
    LET g == HeapAfterApply(last.before, last.ops)
    IN  /\ \A id \in DOMAIN InputObjects(last.before) :
                g.objects[id] = InputObjects(last.before)[id]
        /\ Unfolded(g) = fileSystem

\* A batch whose first operation failed after deleting src and whose second
\* made the folder src anew for its file: the published tree differs from
\* the one passed in.
C21_Witness ==
    /\ last.ops = <<RenameOp("RENAME_FOLDER", <<"src">>, <<"", "">>),
                    FileOp("CREATE_FILE", <<"src", "x.tsx">>, "hi")>>
    /\ <<"src", "App.tsx">> \in DOMAIN last.before
    /\ <<"src", "x.tsx">> \in DOMAIN fileSystem
    /\ <<"src", "App.tsx">> \notin DOMAIN fileSystem


\* ------------------------------------------------ claims: approve and reject

\* C22: approve and reject take effect only on a task that is
\* pending_confirmation: called for a task in any other status they leave
\* the task (its status and its payload) and the tree unchanged.
C22_OnlyPendingConfirmation ==
    [][\A taskId \in TaskIds :
            (/\ TaskById(taskId).status # "pending_confirmation"
             /\ handleApproveTask(taskId) \/ handleRejectTask(taskId))
                => /\ TaskIn(tasks', taskId) = TaskById(taskId)
                   /\ fileSystem' = fileSystem
      ]_vars

\* The part of C22 that is about approve: called for a task that is not
\* pending_confirmation it changes nothing, so approving twice applies the
\* batch once.
C22_ApproveOnlyPendingConfirmation ==
    [][\A taskId \in TaskIds :
            (TaskById(taskId).status # "pending_confirmation" /\ handleApproveTask(taskId))
                => /\ tasks' = tasks
                   /\ fileSystem' = fileSystem
      ]_vars


\* ------------------------------------------------------ claims: running tasks

\* C23: in every reachable state, one restored from the saved workspaces
\* included, a task that is running has a round in flight (so that the end
\* or the failure of its text source takes it out of running).
C23_RunningTaskHasRound ==
    \A i \in DOMAIN tasks :
        tasks[i].status = "running"
            => \E slot \in DOMAIN rounds : rounds[slot].task = tasks[i].id

\* ------------------------------------------------- claims: persistence failure

\* C27: a failure of saving or loading does not corrupt the state in memory:
\* after it App is mounted and operating, and when the save failed the
\* workspaces, trees and tasks are what they were.
C27_StorageFailureKeepsMemory ==
    [][/\ SaveWorkspacesThrows
            => /\ mounted'
               /\ fileSystem' = fileSystem
               /\ tasks' = tasks
       /\ (storage.workspaces.state = "saved" /\ Reload(TRUE))
            => /\ mounted'
               /\ fileSystem' = INITIAL_FILES
               /\ tasks' = <<>>
      ]_vars

\* C24: while auto-pilot stays on, no autopilot task is running and there is
\* room for one more task and round, the interval eventually creates an
\* autopilot task, whatever else keeps changing the workspace.
AutoPilotDue ==
    /\ isAutoPilotOn
    /\ ~autoPilotRunningTask
    /\ Len(tasks) < MaxTasks
    /\ Len(rounds) < MaxInFlight
    /\ started < MaxRounds

AutoPilotTaskCreated == \E i \in DOMAIN tasks : tasks[i].type = "autopilot"

C24_TickEventuallyCreatesTask ==
    AutoPilotDue ~> (AutoPilotTaskCreated \/ ~AutoPilotDue)

\* ---------------------------------------------- claims: create-folder, delete

\* The last call applied a single operation of one of the kinds.
SingleOperation(kinds) ==
    /\ last.handler = "handleDirectFileOperations"
    /\ Len(last.ops) = 1
    /\ last.ops[1].operation \in kinds

\* A proper prefix of the path is a file in the tree before the call.
FileOnTheWay(parts) ==
    \E k \in 1..(Len(parts) - 1) :
        /\ SubSeq(parts, 1, k) \in DOMAIN last.before
        /\ last.before[SubSeq(parts, 1, k)].type = "file"

\* C25: CREATE_FOLDER leaves the tree as it was when a folder or a file is at
\* the path (without failing) and when a proper prefix of the path is a file
\* or the path has no component (failing); otherwise the tree gains an empty
\* folder at the path and a folder at every missing prefix, and nothing else
\* changes.
C25_CreateFolderPolicy ==
    SingleOperation({"CREATE_FOLDER"}) =>
        LET parts == PathParts(last.ops[1].path)
            failed == ApplyOperation(last.before, last.ops[1]).threw
            missing == {SubSeq(parts, 1, k) : k \in 1..Len(parts)} \ DOMAIN last.before
        IN  IF parts = <<>> \/ FileOnTheWay(parts)
            THEN failed /\ fileSystem = last.before
            ELSE IF parts \in DOMAIN last.before
            THEN ~failed /\ fileSystem = last.before
            ELSE ~failed /\ fileSystem = last.before @@ [q \in missing |-> Folder]

\* C26: DELETE_FILE and DELETE_FOLDER never fail; when the path has no
\* component or does not resolve in the tree the tree is left as it was (no
\* parent is made), and when it resolves the node and everything below it
\* leave the tree and every other node stays as it was.
C26_DeletePolicy ==
    SingleOperation({"DELETE_FILE", "DELETE_FOLDER"}) =>
        LET parts == PathParts(last.ops[1].path)
            resolves == parts # <<>> /\ parts \in DOMAIN last.before
            below == {q \in DOMAIN last.before : IsPrefix(parts, q)}
        IN  /\ ~ApplyOperation(last.before, last.ops[1]).threw
            /\ IF resolves
               THEN /\ DOMAIN fileSystem = DOMAIN last.before \ below
                    /\ \A q \in DOMAIN fileSystem : fileSystem[q] = last.before[q]
               ELSE fileSystem = last.before

\* The folder src was deleted with the file in it, beside a file that stayed.
C26_Witness ==
    /\ SingleOperation({"DELETE_FILE", "DELETE_FOLDER"})
    /\ last.ops[1].path = <<"src">>
    /\ <<"src", "App.tsx">> \in DOMAIN last.before
    /\ <<"constructor">> \in DOMAIN last.before
    /\ DOMAIN fileSystem = {<<>>, <<"constructor">>}

\* ---------------------------------------------------- claims: element picker

\* A click on the target while the surface is armed.
ArmedClick(target) == surface.selectorActive /\ Click(target)

\* The host takes an element-selected message.
ReceivesElementSelected ==
    /\ toHost # <<>>
    /\ Head(toHost).type = "element-selected"
    /\ HostReceive

\* The surface takes a message of the type.
SurfaceReceives(type) ==
    /\ toSurface # <<>>
    /\ Head(toSurface).type = type
    /\ SurfaceReceive

\* C28: a click while the surface is armed sends exactly one element-selected
\* message with the selector of the clicked element and its text without the
\* whitespace around it, disarms the surface, leaves no transient highlight,
\* and leaves the clicked element the only one highlighted, permanently; the
\* host, taking the message, stores the descriptor and clears its armed flag.
C28_ClickSelects ==
    [][ /\ \A target \in PageElements :
                ArmedClick(target) =>
                    /\ Len(toHost') = Len(toHost) + 1
                    /\ SubSeq(toHost', 1, Len(toHost)) = toHost
                    /\ LET sent == toHost'[Len(toHost')]
                       IN  /\ sent.type = "element-selected"
                           /\ sent.selector = getSelector(target)
                           /\ sent.text = SelectSeq(TextContent[target],
                                                    LAMBDA c : c \notin Whitespace)
                    /\ ~surface'.selectorActive
                    /\ surface'.transientHighlightedElement = NoElement
                    /\ surface'.permanentHighlightedElement = target
                    /\ \A e \in PageElements :
                            surface'.outline[e] = IF e = target THEN permanentHighlightStyle
                                                  ELSE ""
        /\ ReceivesElementSelected =>
                /\ host'.selectedElementInfo.state = "set"
                /\ host'.selectedElementInfo.selector = Head(toHost).selector
                /\ host'.selectedElementInfo.text = Head(toHost).text
                /\ ~host'.isSelectorActive
      ]_vars

\* The button was clicked while the h1, selected before, was permanently
\* highlighted: the h1 has lost its outline, the message for the button is on
\* its way and the host still shows the h1.
C28_Witness ==
    /\ surface.permanentHighlightedElement = "button"
    /\ surface.outline = [h1 |-> "", button |-> permanentHighlightStyle]
    /\ ~surface.selectorActive
    /\ host.selectedElementInfo = SelectedElement(getSelector("h1"), <<"Hello">>)
    /\ toHost = <<ElementSelected(getSelector("button"), <<"Go">>)>>

\* C29: a permanent highlight stays on its element until the surface takes a
\* clear-selection message or a click selects an element (or the page is
\* loaded anew); taking a toggle-selector message does not remove it; and
\* taking clear-selection changes neither the armed state nor the transient
\* highlight.
C29_PermanentHighlightStays ==
    [][ /\ ( /\ surface.permanentHighlightedElement # NoElement
             /\ \/ surface'.permanentHighlightedElement # surface.permanentHighlightedElement
                \/ surface'.outline[surface.permanentHighlightedElement]
                        # surface.outline[surface.permanentHighlightedElement] )
                => \/ SurfaceReceives("clear-selection")
                   \/ \E target \in PageElements : ArmedClick(target)
                   \/ handleRefresh
        /\ SurfaceReceives("clear-selection") =>
                /\ surface'.selectorActive = surface.selectorActive
                /\ surface'.transientHighlightedElement = surface.transientHighlightedElement
                /\ surface'.permanentHighlightedElement = NoElement
                /\ \A e \in PageElements :
                        e # surface.permanentHighlightedElement =>
                            surface'.outline[e] = surface.outline[e]
      ]_vars

\* The transient and the permanent highlight are never on the same element.
HighlightsApart ==
    surface.transientHighlightedElement # NoElement =>
        surface.transientHighlightedElement # surface.permanentHighlightedElement

\* C30: the transient and the permanent highlight are never on the same
\* element, and a mouseover or mouseout while the surface is armed changes
\* neither which element is permanently highlighted nor its outline.
C30_HoverLeavesPermanent ==
    /\ []HighlightsApart
    /\ [][ ( /\ surface.selectorActive
             /\ surface.permanentHighlightedElement # NoElement
             /\ MouseOut \/ \E target \in PageElements : MouseOver(target) )
                => /\ surface'.permanentHighlightedElement = surface.permanentHighlightedElement
                   /\ surface'.outline[surface.permanentHighlightedElement]
                        = surface.outline[surface.permanentHighlightedElement]
          ]_vars

\* Armed again after the h1 was selected: the h1 keeps its permanent outline
\* while the button under the cursor has the transient one.
C30_Witness ==
    /\ surface.selectorActive
    /\ surface.permanentHighlightedElement = "h1"
    /\ surface.transientHighlightedElement = "button"
    /\ surface.outline = [h1 |-> permanentHighlightStyle, button |-> transientHighlightStyle]

ReceivesConsole ==
    /\ toHost # <<>>
    /\ Head(toHost).type = "console"
    /\ host.activeTab = "preview"
    /\ HostReceive

\* C32: the host records a console message under its level when that is one
\* of log, debug, info, warn and error, and under log otherwise; a message
\* recorded as an error while the console tab is not the active one makes it
\* the active one; a message recorded under another level leaves the active
\* tab as it is.
C32_ConsoleLevels ==
    [][ ReceivesConsole =>
            LET level == Head(toHost).level
                recorded == host'.received[Len(host'.received)]
            IN  /\ Len(host'.received) = Len(host.received) + 1
                /\ recorded.message = Head(toHost).message
                /\ recorded.level = IF level \in {"log", "debug", "info", "warn", "error"}
                                    THEN level ELSE "log"
                /\ host'.consoleLogs[1] = recorded
                /\ IF recorded.level = "error"
                   THEN host'.activeTab = "console"
                   ELSE host'.activeTab = host.activeTab
      ]_vars

\* console.table was recorded as a log and left the preview tab active, and
\* the console.error after it brought the console tab forward.
C32_Witness ==
    /\ Len(host.received) = MaxLogs
    /\ \E i \in DOMAIN host.received :
            /\ host.received[i] = [level |-> "log", message |-> "table", timestamp |-> i]
            /\ i < Len(host.received)
    /\ host.received[Len(host.received)].level = "error"
    /\ host.activeTab = "console"

\* The separator the framing of the whole text cuts at.
CutOf(text) ==
    IF indexOf(text, blueprintSeparator) # -1 THEN blueprintSeparator ELSE opsSeparator

\* C33: at every chunk of a stream the content the task shows is a prefix of
\* the buffer, the content shown at the chunk before is a prefix of it (what
\* was shown is not taken back), and it holds no part of the separator the
\* response is cut at, whether that separator has arrived whole or not.
C33_ShownContentMonotone ==
    [][ (Len(rounds) = 1 /\ Len(rounds') = 1
            /\ rounds'[1].fullResponseText # rounds[1].fullResponseText)
            => LET shown == TaskIn(tasks', rounds[1].task).assistantResponse.content
                   before == TaskIn(tasks, rounds[1].task).assistantResponse.content
                   whole == rounds[1].response
               IN  /\ IsPrefix(shown, rounds'[1].fullResponseText)
                   /\ IsPrefix(before, shown)
                   /\ Contains(whole, CutOf(whole))
                        => Len(shown) <= Len(BeforeFirst(whole, CutOf(whole)))
      ]_vars

\* The rounds in flight for the task.
RoundsOf(rs, taskId) == {slot \in DOMAIN rs : rs[slot].task = taskId}

\* C34: no task has two rounds in flight; a round is started for a task
\* that is already in the list only when the task is
\* pending_blueprint_approval, so that a call of the approval for a running
\* task, before or after its first chunk, starts none.
C34_OneRoundPerTask ==
    /\ [](\A taskId \in TaskIds : Cardinality(RoundsOf(rounds, taskId)) <= 1)
    /\ [][\A taskId \in TaskIds :
            Cardinality(RoundsOf(rounds', taskId)) > Cardinality(RoundsOf(rounds, taskId))
                => TaskById(taskId).status = "pending_blueprint_approval"]_vars

\* C35: whenever the previewed page is there and no message is on its way
\* in either direction, isSelectorActive of the host is selectorActive of
\* the surface.
C35_PickerStatesAgree ==
    (host.activeTab = "preview" /\ toSurface = <<>> /\ toHost = <<>>)
        => host.isSelectorActive = surface.selectorActive

\* C36: a task in pending_blueprint_approval carries a blueprint, the object
\* its payload decoded to, and a task in pending_confirmation carries an
\* operations list.
C36_PendingCarriesPayload ==
    \A i \in DOMAIN tasks :
        /\ tasks[i].status = "pending_blueprint_approval"
                => /\ tasks[i].assistantResponse.present
                   /\ tasks[i].assistantResponse.blueprint.type = "object"
        /\ tasks[i].status = "pending_confirmation"
                => /\ tasks[i].assistantResponse.present
                   /\ tasks[i].assistantResponse.hasOperations

\* The operation preview of the task is rendered and shows confirmed.
PresentedConfirmed(ts, taskId) ==
    /\ \E i \in DOMAIN ts : ts[i].id = taskId
    /\ TaskIn(ts, taskId).assistantResponse.hasOperations
    /\ Len(TaskIn(ts, taskId).assistantResponse.operations) > 0
    /\ getPreviewStatus(TaskIn(ts, taskId)) = "confirmed"

\* C37: the operations of a task come to be presented as confirmed only in
\* a step that applies them to the tree, and never by a reject.
C37_ConfirmedMeansApplied ==
    [][\A taskId \in TaskIds :
        /\ (~PresentedConfirmed(tasks, taskId) /\ PresentedConfirmed(tasks', taskId))
                => fileSystem' = applyFileOperations(fileSystem,
                                    TaskIn(tasks', taskId).assistantResponse.operations)
        /\ (ShowsOperationPreview(taskId) /\ handleRejectTask(taskId))
                => ~PresentedConfirmed(tasks', taskId)
      ]_vars


\* The calls of runAIGeneration whose state update this step runs: the ones
\* that have taken a chunk or have ended.
RoundsAdvanced ==
    {rounds[slot] : slot \in DOMAIN rounds} \ {rounds'[slot] : slot \in DOMAIN rounds'}

\* The effect of a call r on workspace number i, the workspace of the call:
\* the other tasks and, unless an auto-pilot call applies its operations,
\* the tree are what they were; the task shows the text so far while the
\* call is in flight and is no longer running when it has ended.
LandsInTask(r, i) ==
    /\ Len(workspaces'[i].tasks) = Len(workspaces[i].tasks)
    /\ ~r.isAutoPilot => workspaces'[i].fileSystem = workspaces[i].fileSystem
    /\ \A k \in DOMAIN workspaces[i].tasks :
            IF workspaces[i].tasks[k].id # r.task
            THEN workspaces'[i].tasks[k] = workspaces[i].tasks[k]
            ELSE IF \E slot \in DOMAIN rounds' : rounds'[slot].task = r.task
                 THEN \E slot \in DOMAIN rounds' :
                        /\ rounds'[slot].task = r.task
                        /\ workspaces'[i].tasks[k].assistantResponse.content =
                                rounds'[slot].conversationalPart
                        /\ workspaces'[i].tasks[k].status = workspaces[i].tasks[k].status
                 ELSE workspaces'[i].tasks[k].status # "running"

\* C38: every effect of a round (the text of a chunk, the final status and
\* payload, the operations an auto-pilot round applies, an error) is on the
\* workspace that was active when the round started and on the task of the
\* round, whichever workspace is active now: every other workspace, its tree
\* and its tasks, is what it was, and so is the choice of the active
\* workspace. A step that is not of a round (a task created, operations
\* approved, a workspace created, deleted or made active) leaves every
\* workspace but the active one as it was.
C38_WorkspaceIsolation ==
    [][/\ \A r \in RoundsAdvanced :
            /\ activeWorkspaceId' = activeWorkspaceId
            /\ Len(workspaces') = Len(workspaces)
            /\ \A i \in DOMAIN workspaces :
                    /\ workspaces'[i].id = workspaces[i].id
                    /\ IF workspaces[i].id # r.activeWorkspaceId
                       THEN workspaces'[i] = workspaces[i]
                       ELSE LandsInTask(r, i)
       /\ RoundsAdvanced = {} =>
            \A i \in DOMAIN workspaces : \A j \in DOMAIN workspaces' :
                (workspaces'[j].id = workspaces[i].id /\ workspaces[i].id # activeWorkspaceId)
                    => workspaces'[j] = workspaces[i]]_vars

\* The auto-pilot round of the first workspace has applied its operations
\* and completed its task there, an update of a round has run while another
\* workspace was the active one, and the workspace that is active now, made
\* from the same initial tree, has that tree and no task.
C38_Witness ==
    /\ last.handler = "runAIGeneration"
    /\ rounds = <<>>
    /\ Len(workspaces) = 2
    /\ \E i \in DOMAIN workspaces : \E j \in DOMAIN workspaces :
            /\ workspaces[i].id = 1
            /\ workspaces[i].fileSystem # INITIAL_FILES
            /\ Len(workspaces[i].tasks) = 1
            /\ workspaces[i].tasks[1].type = "autopilot"
            /\ workspaces[i].tasks[1].status = "completed"
            /\ workspaces[i].tasks[1].assistantResponse.hasOperations
            /\ workspaces[j].id = activeWorkspaceId
            /\ workspaces[j].id # 1
            /\ workspaces[j].fileSystem = INITIAL_FILES
            /\ workspaces[j].tasks = <<>>


\* C39: while the surface is disarmed, hover and click events change no
\* highlight and send no element-selected message: the surface changes only
\* by taking a message of the host or by being made anew, and nothing is
\* sent.  And the host acts only on messages whose source is the current
\* preview surface: a log is recorded, or an element selected, only when
\* that is the next message of the surface that is there, and the message is
\* then taken from its queue, so that console and element-selected messages
\* of any other source are ignored.
C39_DisarmedAndForeignIgnored ==
    [][/\ ~surface.selectorActive =>
            /\ \/ surface' = surface
               \/ toSurface # <<>> /\ toSurface' = Tail(toSurface)
               \/ surface' = InitialSurface
            /\ ~(/\ Len(toHost') > Len(toHost)
                 /\ toHost'[Len(toHost')].type = "element-selected")
       /\ host'.received # host.received =>
            /\ host.activeTab = "preview"
            /\ toHost # <<>>
            /\ Head(toHost).type = "console"
            /\ host'.received[Len(host'.received)].message = Head(toHost).message
            /\ toHost' \in {Tail(toHost), <<>>}
       /\ (host'.selectedElementInfo # host.selectedElementInfo
            /\ host'.selectedElementInfo # NoSelection) =>
            /\ host.activeTab = "preview"
            /\ toHost # <<>>
            /\ Head(toHost).type = "element-selected"
            /\ host'.selectedElementInfo =
                    SelectedElement(Head(toHost).selector, Head(toHost).text)
            /\ toHost' = Tail(toHost)]_vars

\* The surface is disarmed after a click whose message the host has taken:
\* the element has the permanent highlight and is the host's selection, no
\* message is on its way, no log was recorded, and any hover, click or
\* message of another window finds this state.
C39_Witness ==
    /\ ~surface.selectorActive
    /\ surface.permanentHighlightedElement \in PageElements
    /\ surface.transientHighlightedElement = NoElement
    /\ host.activeTab = "preview"
    /\ host.selectedElementInfo # NoSelection
    /\ ~host.isSelectorActive
    /\ host.received = <<>>
    /\ toHost = <<>>
    /\ toSurface = <<>>

====
